---- MODULE Spec2Model ----
(***************************************************************************)
(* State-machine model of bid-rss-mailer: the SQLite store (items,         *)
(* deliveries, x_posts), the run_pipeline orchestration                    *)
(* (fetch, score, dedupe, cap, send, record, purge) and the publish_x_post *)
(* state machine.                                                          *)
(*                                                                         *)
(* Abstractions:                                                           *)
(*  - instants are whole hours since an epoch (the ISO-8601 UTC strings    *)
(*    the store compares are ordered like the instants they encode);       *)
(*  - a URL is the record urlsplit makes of it: [scheme, host, path,       *)
(*    slashes, query, fragment], the path given without its trailing       *)
(*    slashes and slashes counting them, query the list of [key, value]    *)
(*    pairs; SHA-256 of the normalised URL is modelled as the normalised   *)
(*    URL itself (the hash is taken to be collision free);                 *)
(*  - a title is a string whose contained terms are given by TitleTerms;   *)
(*  - Python's string order is given by the position in Lexicon.           *)
(***************************************************************************)
EXTENDS Integers, Sequences, FiniteSets, TLC

VARIABLES
    now,            \* the wall clock, in hours
    ticks,          \* number of clock advances so far
    items,          \* table items
    itemSeq,        \* AUTOINCREMENT counter of items
    deliveries,     \* table deliveries
    deliverySeq,    \* AUTOINCREMENT counter of deliveries
    subscribers,    \* table subscribers
    pc,             \* position of the running run_pipeline ("idle" when none)
    run,            \* locals of the running / last run_pipeline
    runs,           \* number of run_pipeline invocations started
    hist,           \* observations used by the properties (never read by the program)
    directCall,     \* the last direct call of a function, with its arguments
    posts,          \* table x_posts
    pub,            \* arguments and outcome of the last publish_x_post invocation
    pubs,           \* number of publish_x_post invocations so far
    pubHist,        \* observations of the publish channel (never read by the program)
    drafts,         \* table x_drafts
    draftFiles,     \* the draft files of the output directory, by JST date
    draft,          \* arguments and outcome of the last generate_x_draft invocation
    draftHist       \* by JST date, the content the last generating call returned

vars == <<now, ticks, items, itemSeq, deliveries, deliverySeq, subscribers, pc, run, runs, hist,
          directCall, posts, pub, pubs, pubHist, drafts, draftFiles, draft, draftHist>>

draftVars == <<drafts, draftFiles, draft, draftHist>>

publishVars == <<posts, pub, pubs, pubHist>>

pipelineVars == <<now, ticks, pc, run, runs, hist>>

storeVars == <<items, itemSeq, deliveries, deliverySeq, subscribers>>

-----------------------------------------------------------------------------
(* Bounds *)

MaxRuns == 3
MaxTicks == 1
MaxBatch == 2
MaxPublishes == 2
MaxListLen == 2
MaxBudget == 4
MaxStoreCalls == 4

\* SQL NULL / Python None; a present value v of a nullable field is <<v>>.
NULL == <<>>

-----------------------------------------------------------------------------
(* Small helpers *)

Range(s) == {s[i] : i \in 1..Len(s)}

Min(a, b) == IF a <= b THEN a ELSE b

RECURSIVE SumLens(_, _)
SumLens(f, S) ==
    IF S = {} THEN 0
    ELSE LET k == CHOOSE x \in S : TRUE
         IN Len(f[k]) + SumLens(f, S \ {k})

Take(s, n) == SubSeq(s, 1, Min(n, Len(s)))

\* Python's order on the strings the model uses (code-point order).
Lexicon == <<"/a", "/b", "1", "2", "admin@example.com", "cloud ops", "cloud ops hardware",
             "cloud ops urgent", "id", "ops", "ops hardware", "ops hardware spare", "orgA",
             "orgB", "page", "sub1@example.com", "sub2@example.com", "x">>

StrRank(s) == CHOOSE i \in 1..Len(Lexicon) : Lexicon[i] = s

-----------------------------------------------------------------------------
(* normalize.py *)

TRACKING_QUERY_KEYS ==
    {"utm_source", "utm_medium", "utm_campaign", "utm_term", "utm_content", "gclid", "fbclid"}

\* str.lower() on the strings the model uses.
Lower(str) ==
    CASE str = "HTTPS" -> "https"
      [] str = "Example.com" -> "example.com"
      [] str = "UTM_Source" -> "utm_source"
      [] OTHER -> str

RECURSIVE FilterTracking(_)
FilterTracking(q) ==
    IF q = <<>> THEN <<>>
    ELSE IF Lower(Head(q).key) \in TRACKING_QUERY_KEYS
         THEN FilterTracking(Tail(q))
         ELSE <<Head(q)>> \o FilterTracking(Tail(q))

\* Python's order on (key, value) tuples.
PairBefore(p, q) ==
    \/ StrRank(p.key) < StrRank(q.key)
    \/ p.key = q.key /\ StrRank(p.value) < StrRank(q.value)

RECURSIVE InsertSorted(_, _)
InsertSorted(k, q) ==
    IF q = <<>> THEN <<k>>
    ELSE IF PairBefore(k, Head(q))
         THEN <<k>> \o q
         ELSE <<Head(q)>> \o InsertSorted(k, Tail(q))

SortKeysAsGiven(q) == q

RECURSIVE SortKeys(_)
SortKeys(q) ==
    IF q = <<>> THEN <<>> ELSE InsertSorted(Head(q), SortKeys(Tail(q)))

\* normalize_url, on the parts urlsplit gives and urlunsplit puts together.
normalize_url(url) ==
    LET rooted == IF url.path = "" /\ url.slashes = 0 THEN 1 ELSE url.slashes
        is_root == url.path = "" /\ rooted = 1
    IN [scheme |-> Lower(IF url.scheme = "" THEN "https" ELSE url.scheme),
        host |-> Lower(url.host),
        path |-> url.path,
        slashes |-> IF ~is_root /\ rooted >= 1 THEN rooted - 1 ELSE rooted,
        query |-> SortKeys(FilterTracking(url.query)),
        fragment |-> ""]

stable_url_key(url) == normalize_url(url)

\* contains_term(normalize_text(title), term): the terms a title contains.
TitleTerms ==
    [t \in {"cloud ops", "cloud ops urgent", "ops hardware", "cloud ops hardware", "ops",
            "ops hardware spare"} |->
        CASE t = "cloud ops" -> {"cloud", "ops"}
          [] t = "cloud ops urgent" -> {"cloud", "ops", "urgent"}
          [] t = "ops hardware" -> {"ops", "hardware"}
          [] t = "cloud ops hardware" -> {"cloud", "ops", "hardware"}
          [] t = "ops" -> {"ops"}
          [] t = "ops hardware spare" -> {"ops", "hardware", "spare"}]

contains_term(title, term) == term \in TitleTerms[title]

-----------------------------------------------------------------------------
(* Configuration and inputs of the runs *)

\* keyword_sets.yaml: the declared keyword sets, in declared order.
KeywordSets ==
    << [id |-> "set-a", enabled |-> TRUE, min_required_matches |-> 1,
        required |-> <<"cloud", "ops">>, boost |-> <<"urgent">>,
        exclude |-> <<>>, exclude_exceptions |-> <<>>, top_n |-> 1],
       [id |-> "set-b", enabled |-> TRUE, min_required_matches |-> 1,
        required |-> <<"ops">>, boost |-> <<>>,
        exclude |-> <<"hardware">>, exclude_exceptions |-> <<>>, top_n |-> 2],
       [id |-> "set-c", enabled |-> FALSE, min_required_matches |-> 1,
        required |-> <<"cloud">>, boost |-> <<>>,
        exclude |-> <<>>, exclude_exceptions |-> <<>>, top_n |-> 2] >>

KeywordSetIds == {KeywordSets[i].id : i \in 1..Len(KeywordSets)}

EnabledIds == {KeywordSets[i].id : i \in {j \in 1..Len(KeywordSets) : KeywordSets[j].enabled}}

\* https://example.com<path>?<query>
Url(path, query) ==
    [scheme |-> "https", host |-> "example.com", path |-> path, slashes |-> 0,
     query |-> query, fragment |-> ""]

Param(key) == [key |-> key, value |-> IF key = "utm_source" THEN "x" ELSE "1"]

\* The entries the feeds can carry, in feed order (fetched_at is set at fetch).
FeedUniverse ==
    << [source_id |-> "s1", organization |-> "orgA", title |-> "cloud ops",
        url |-> Url("/a", <<>>), published_at |-> NULL, deadline_at |-> NULL],
       [source_id |-> "s1", organization |-> "orgA", title |-> "cloud ops urgent",
        url |-> Url("/a", <<Param("utm_source")>>), published_at |-> NULL, deadline_at |-> NULL],
       [source_id |-> "s2", organization |-> "orgB", title |-> "ops hardware",
        url |-> Url("/b", <<Param("page"), Param("id")>>), published_at |-> NULL, deadline_at |-> NULL] >>

UrlKeys == {stable_url_key(FeedUniverse[i].url) : i \in 1..Len(FeedUniverse)}

\* fetch_all_sources: the entries of FeedUniverse whose index is in S, in
\* feed order, each stamped with the fetch instant.
RECURSIVE FeedOf(_, _, _)
FeedOf(S, i, fetched_at) ==
    IF i > Len(FeedUniverse) THEN <<>>
    ELSE IF i \in S
         THEN <<FeedUniverse[i] @@ [fetched_at |-> fetched_at]>> \o FeedOf(S, i + 1, fetched_at)
         ELSE FeedOf(S, i + 1, fetched_at)

AdminEmail == "admin@example.com"

\* The batches a fetch returns (indices into FeedUniverse).
FeedChoices == {{}, {1}, {1, 3}, {1, 2, 3}}

MaxTotalChoices == {1, 30}

TickSteps == {24 * 31}

-----------------------------------------------------------------------------
(* storage.py *)

ItemByKey(tbl, key) == CHOOSE r \in tbl : r.url_key = key

Coalesce(a, b) == IF a # NULL THEN a ELSE b

upsert_item_always_inserting(tbl, seq, item) ==
    [tbl |-> tbl \cup {[id |-> seq + 1, source_id |-> item.source_id,
                         organization |-> item.organization, title |-> item.title,
                         url |-> item.url, url_key |-> stable_url_key(item.url),
                         published_at |-> item.published_at,
                         deadline_at |-> item.deadline_at,
                         fetched_at |-> item.fetched_at]},
     seq |-> seq + 1, id |-> seq + 1]

\* upsert_item: INSERT OR IGNORE on url_key, UPDATE when the insert was
\* ignored, then SELECT id.  Result: the table, the counter and the id.
upsert_item(tbl, seq, item) ==
    LET key == stable_url_key(item.url)
    IN IF \E r \in tbl : r.url_key = key
       THEN LET old == ItemByKey(tbl, key)
                new == [old EXCEPT !.source_id = item.source_id,
                                   !.organization = item.organization,
                                   !.title = item.title,
                                   !.url = item.url,
                                   !.published_at = Coalesce(item.published_at, old.published_at),
                                   !.deadline_at = Coalesce(item.deadline_at, old.deadline_at),
                                   !.fetched_at = item.fetched_at]
            IN [tbl |-> (tbl \ {old}) \cup {new}, seq |-> seq, id |-> old.id]
       ELSE [tbl |-> tbl \cup {[id |-> seq + 1, source_id |-> item.source_id,
                                organization |-> item.organization, title |-> item.title,
                                url |-> item.url, url_key |-> key,
                                published_at |-> item.published_at,
                                deadline_at |-> item.deadline_at,
                                fetched_at |-> item.fetched_at]},
             seq |-> seq + 1, id |-> seq + 1]

delivered_item_ids_of_any_set(tbl, keyword_set_id, item_ids) ==
    {r.item_id : r \in {d \in tbl : d.item_id \in item_ids}}

delivered_item_ids(tbl, keyword_set_id, item_ids) ==
    {r.item_id : r \in {d \in tbl : d.keyword_set_id = keyword_set_id /\ d.item_id \in item_ids}}

\* One row of the executemany: INSERT OR IGNORE under UNIQUE(keyword_set_id, item_id).
InsertOrIgnoreDeliveryReplacing(st, row) ==
    [tbl |-> {d \in st.tbl : ~(d.keyword_set_id = row.keyword_set_id /\ d.item_id = row.item_id)}
             \cup {row @@ [id |-> st.seq + 1]},
     seq |-> st.seq + 1]

InsertOrIgnoreDeliveryNoConstraint(st, row) ==
    [tbl |-> st.tbl \cup {row @@ [id |-> st.seq + 1]}, seq |-> st.seq + 1]

InsertOrIgnoreDelivery(st, row) ==
    IF \E d \in st.tbl : d.keyword_set_id = row.keyword_set_id /\ d.item_id = row.item_id
    THEN st
    ELSE [tbl |-> st.tbl \cup {row @@ [id |-> st.seq + 1]}, seq |-> st.seq + 1]

RECURSIVE InsertDeliveries(_, _)
InsertDeliveries(st, rows) ==
    IF rows = <<>> THEN st
    ELSE InsertDeliveries(InsertOrIgnoreDelivery(st, Head(rows)), Tail(rows))

\* record_deliveries: one transaction; st is [tbl, seq].
record_deliveries(st, run_id, keyword_set_id, records, delivered_at) ==
    IF records = <<>> THEN st
    ELSE InsertDeliveries(st,
            [i \in 1..Len(records) |->
                [run_id |-> run_id, keyword_set_id |-> keyword_set_id,
                 item_id |-> records[i].item_id, score |-> records[i].scored_item.score,
                 delivered_at |-> delivered_at]])

RetentionDays == 30

Cutoff(current, days) == current - days * 24

PurgeDeliveries(tbl, cutoff) == {d \in tbl : ~(d.delivered_at < cutoff)}

PurgeItemsByAgeOnly(tbl, dtbl, cutoff) == {r \in tbl : ~(r.fetched_at < cutoff)}

PurgeItems(tbl, dtbl, cutoff) ==
    {r \in tbl : ~(r.fetched_at < cutoff /\ r.id \notin {d.item_id : d \in dtbl})}

\* purge_older_than: both deletes in one transaction.
purge_older_than(itbl, dtbl, days, current) ==
    LET cutoff == Cutoff(current, days)
        d2 == PurgeDeliveries(dtbl, cutoff)
    IN [items |-> PurgeItems(itbl, d2, cutoff), deliveries |-> d2]

RECURSIVE SortEmails(_)
SortEmails(S) ==
    IF S = {} THEN <<>>
    ELSE LET m == CHOOSE r \in S : \A o \in S : StrRank(r.email_norm) <= StrRank(o.email_norm)
         IN <<m.email>> \o SortEmails(S \ {m})

active_subscriber_emails(tbl) == SortEmails({r \in tbl : r.status = "active"})

-----------------------------------------------------------------------------
(* scorer.py *)

RECURSIVE FilterTerms(_, _)
FilterTerms(terms, title) ==
    IF terms = <<>> THEN <<>>
    ELSE IF contains_term(title, Head(terms))
         THEN <<Head(terms)>> \o FilterTerms(Tail(terms), title)
         ELSE FilterTerms(Tail(terms), title)

ScorePairExcludeAlways(item, ks) ==
    LET required_matches == FilterTerms(ks.required, item.title)
        excluded_matches == FilterTerms(ks.exclude, item.title)
        boost_matches == FilterTerms(ks.boost, item.title)
    IN IF ~ks.enabled THEN <<>>
       ELSE IF Len(required_matches) < ks.min_required_matches THEN <<>>
       ELSE IF excluded_matches # <<>> THEN <<>>
       ELSE <<[keyword_set_id |-> ks.id, item |-> item,
               score |-> Len(required_matches) * 10 + Len(boost_matches) * 3,
               required_matches |-> required_matches,
               boost_matches |-> boost_matches]>>

ScorePairBoostAsRequired(item, ks) ==
    LET required_matches == FilterTerms(ks.required, item.title)
        excluded_matches == FilterTerms(ks.exclude, item.title)
        has_exception == \E i \in 1..Len(ks.exclude_exceptions) :
                             contains_term(item.title, ks.exclude_exceptions[i])
        boost_matches == FilterTerms(ks.boost, item.title)
    IN IF ~ks.enabled THEN <<>>
       ELSE IF Len(required_matches) < ks.min_required_matches THEN <<>>
       ELSE IF excluded_matches # <<>> /\ ~has_exception THEN <<>>
       ELSE <<[keyword_set_id |-> ks.id, item |-> item,
               score |-> (Len(required_matches) + Len(boost_matches)) * 10,
               required_matches |-> required_matches,
               boost_matches |-> boost_matches]>>

\* The body of the double loop of score_items for one (item, keyword set):
\* <<scored item>> when the pair is kept, <<>> when it is rejected.
ScorePair(item, ks) ==
    LET required_matches == FilterTerms(ks.required, item.title)
        excluded_matches == FilterTerms(ks.exclude, item.title)
        has_exception == \E i \in 1..Len(ks.exclude_exceptions) :
                             contains_term(item.title, ks.exclude_exceptions[i])
        boost_matches == FilterTerms(ks.boost, item.title)
    IN IF ~ks.enabled THEN <<>>
       ELSE IF Len(required_matches) < ks.min_required_matches THEN <<>>
       ELSE IF excluded_matches # <<>> /\ ~has_exception THEN <<>>
       ELSE <<[keyword_set_id |-> ks.id, item |-> item,
               score |-> Len(required_matches) * 10 + Len(boost_matches) * 3,
               required_matches |-> required_matches,
               boost_matches |-> boost_matches]>>

PublishedTs(item) == IF item.published_at # NULL THEN item.published_at[1] ELSE 0

SortKeyLessWithoutOrganization(a, b) ==
    \/ a.score > b.score
    \/ /\ a.score = b.score
       /\ \/ PublishedTs(a.item) > PublishedTs(b.item)
          \/ /\ PublishedTs(a.item) = PublishedTs(b.item)
             /\ \/ a.item.fetched_at > b.item.fetched_at
                \/ /\ a.item.fetched_at = b.item.fetched_at
                   /\ StrRank(a.item.title) < StrRank(b.item.title)

\* _sort_key(a) < _sort_key(b)
SortKeyLess(a, b) ==
    \/ a.score > b.score
    \/ /\ a.score = b.score
       /\ \/ PublishedTs(a.item) > PublishedTs(b.item)
          \/ /\ PublishedTs(a.item) = PublishedTs(b.item)
             /\ \/ a.item.fetched_at > b.item.fetched_at
                \/ /\ a.item.fetched_at = b.item.fetched_at
                   /\ \/ StrRank(a.item.organization) < StrRank(b.item.organization)
                      \/ /\ a.item.organization = b.item.organization
                         /\ StrRank(a.item.title) < StrRank(b.item.title)

\* list.sort(key=_sort_key) is stable: x goes after every element it does not precede.
RECURSIVE InsertScored(_, _)
InsertScored(x, s) ==
    IF s = <<>> THEN <<x>>
    ELSE IF SortKeyLess(x, Head(s))
         THEN <<x>> \o s
         ELSE <<Head(s)>> \o InsertScored(x, Tail(s))

RECURSIVE SortScored(_)
SortScored(s) ==
    IF s = <<>> THEN <<>>
    ELSE InsertScored(s[Len(s)], SortScored(SubSeq(s, 1, Len(s) - 1)))

RECURSIVE ScoreAll(_, _)
ScoreAll(feed, ks) ==
    IF feed = <<>> THEN <<>>
    ELSE ScorePair(Head(feed), ks) \o ScoreAll(Tail(feed), ks)

score_items(feed, keyword_sets) ==
    [id \in {keyword_sets[i].id : i \in 1..Len(keyword_sets)} |->
        LET ks == keyword_sets[CHOOSE i \in 1..Len(keyword_sets) : keyword_sets[i].id = id]
        IN SortScored(ScoreAll(feed, ks))]

-----------------------------------------------------------------------------
(* pipeline.py *)

\* _attach_item_ids: upsert every fetched item; st is [tbl, seq, ids].
RECURSIVE attach_item_ids(_, _)
attach_item_ids(st, feed) ==
    IF feed = <<>> THEN st
    ELSE LET r == upsert_item(st.tbl, st.seq, Head(feed))
         IN attach_item_ids([tbl |-> r.tbl, seq |-> r.seq,
                             ids |-> (Head(feed).url :> r.id) @@ st.ids],
                            Tail(feed))

RECURSIVE Stored(_, _)
Stored(scored_items, item_ids_by_url) ==
    IF scored_items = <<>> THEN <<>>
    ELSE IF Head(scored_items).item.url \in DOMAIN item_ids_by_url
         THEN <<[item_id |-> item_ids_by_url[Head(scored_items).item.url],
                 scored_item |-> Head(scored_items)]>>
              \o Stored(Tail(scored_items), item_ids_by_url)
         ELSE Stored(Tail(scored_items), item_ids_by_url)

RECURSIVE Dedupe(_, _)
DedupeKeepingAll(records, seen_item_ids) == records

\* Lines 61-67: the first record of every item id, in order.
Dedupe(records, seen_item_ids) ==
    IF records = <<>> THEN <<>>
    ELSE IF Head(records).item_id \in seen_item_ids
         THEN Dedupe(Tail(records), seen_item_ids)
         ELSE <<Head(records)>> \o Dedupe(Tail(records), seen_item_ids \cup {Head(records).item_id})

RECURSIVE NotDelivered(_, _)
NotDelivered(records, delivered_ids) ==
    IF records = <<>> THEN <<>>
    ELSE IF Head(records).item_id \in delivered_ids
         THEN NotDelivered(Tail(records), delivered_ids)
         ELSE <<Head(records)>> \o NotDelivered(Tail(records), delivered_ids)

\* deduped_records of _filter_new_records, before the top_n slice.
DedupedRecords(dtbl, keyword_set, scored_items_by_set, item_ids_by_url) ==
    LET scored_items == IF keyword_set.id \in DOMAIN scored_items_by_set
                        THEN scored_items_by_set[keyword_set.id] ELSE <<>>
        stored == Stored(scored_items, item_ids_by_url)
        delivered_ids == delivered_item_ids(dtbl, keyword_set.id,
                                            {stored[i].item_id : i \in 1..Len(stored)})
    IN Dedupe(NotDelivered(stored, delivered_ids), {})

filter_new_records(dtbl, keyword_set, scored_items_by_set, item_ids_by_url) ==
    Take(DedupedRecords(dtbl, keyword_set, scored_items_by_set, item_ids_by_url),
         keyword_set.top_n)

\* The loop of _apply_total_limit from keyword set i on, with the budget left.
LimitedRecordsUncapped(records, remaining) ==
    IF remaining <= 0 THEN <<>> ELSE records

\* Lines 198-201: nothing once the budget is spent, else records[:remaining].
LimitedRecords(records, remaining) ==
    IF remaining <= 0 THEN <<>> ELSE Take(records, remaining)

RECURSIVE LimitFrom(_, _, _, _)
LimitFrom(selected_by_set, keyword_sets, i, remaining) ==
    IF i > Len(keyword_sets) THEN <<>>
    ELSE LET ks == keyword_sets[i]
             records == IF ks.id \in DOMAIN selected_by_set THEN selected_by_set[ks.id] ELSE <<>>
             limited_records == LimitedRecords(records, remaining)
         IN IF ~ks.enabled
            THEN LimitFrom(selected_by_set, keyword_sets, i + 1, remaining)
            ELSE <<<<ks.id, limited_records>>>>
                 \o LimitFrom(selected_by_set, keyword_sets, i + 1, remaining - Len(limited_records))

apply_total_limit(selected_by_set, keyword_sets, max_total_items) ==
    LET pairs == LimitFrom(selected_by_set, keyword_sets, 1, max_total_items)
    IN [id \in {pairs[i][1] : i \in 1..Len(pairs)} |->
            pairs[CHOOSE i \in 1..Len(pairs) : pairs[i][1] = id][2]]

RECURSIVE DedupeSeq(_, _)
DedupeSeq(s, seen) ==
    IF s = <<>> THEN <<>>
    ELSE IF Head(s) \in seen THEN DedupeSeq(Tail(s), seen)
         ELSE <<Head(s)>> \o DedupeSeq(Tail(s), seen \cup {Head(s)})

resolve_recipients_keeping_duplicates(active_subscribers, admin_email, send_admin_copy) ==
    IF send_admin_copy \/ active_subscribers = <<>>
    THEN Append(active_subscribers, admin_email)
    ELSE active_subscribers

\* _resolve_recipients
resolve_recipients(active_subscribers, admin_email, send_admin_copy) ==
    LET recipients == IF send_admin_copy \/ active_subscribers = <<>>
                      THEN Append(active_subscribers, admin_email)
                      ELSE active_subscribers
    IN DedupeSeq(recipients, {})

KeywordSetById(id) == KeywordSets[CHOOSE i \in 1..Len(KeywordSets) : KeywordSets[i].id = id]

PairsOf(sel) ==
    UNION {{<<id, stable_url_key(sel[id][i].scored_item.item.url)>> : i \in 1..Len(sel[id])} :
           id \in DOMAIN sel}

PairsOfScored(scored_by_set) ==
    UNION {{<<id, stable_url_key(scored_by_set[id][i].item.url)>> : i \in 1..Len(scored_by_set[id])} :
           id \in DOMAIN scored_by_set}

\* The scorer's ranked list of a keyword set as (item id, raw URL) entries.
RankedOf(scored_by_set, item_ids_by_url) ==
    [id \in DOMAIN scored_by_set |->
        [i \in 1..Len(scored_by_set[id]) |->
            [item_id |-> item_ids_by_url[scored_by_set[id][i].item.url],
             url |-> scored_by_set[id][i].item.url]]]

\* Lists of records as (item id, raw URL) entries.
EntriesOf(sel) ==
    [id \in DOMAIN sel |->
        [i \in 1..Len(sel[id]) |->
            [item_id |-> sel[id][i].item_id, url |-> sel[id][i].scored_item.item.url]]]

KeysOf(sel) ==
    [id \in DOMAIN sel |->
        [i \in 1..Len(sel[id]) |-> stable_url_key(sel[id][i].scored_item.item.url)]]

\* The loop over selected_by_set.items() calling store.record_deliveries; st is [tbl, seq].
RECURSIVE RecordFrom(_, _, _, _, _)
RECURSIVE RecordFromFirstSetOnly(_, _, _, _, _)
RecordFromFirstSetOnly(st, run_id, selected_by_set, delivered_at, i) ==
    IF i > Len(KeywordSets) THEN st
    ELSE IF KeywordSets[i].id \in DOMAIN selected_by_set /\ selected_by_set[KeywordSets[i].id] # <<>>
         THEN record_deliveries(st, run_id, KeywordSets[i].id,
                                selected_by_set[KeywordSets[i].id], delivered_at)
         ELSE RecordFromFirstSetOnly(st, run_id, selected_by_set, delivered_at, i + 1)

RecordFrom(st, run_id, selected_by_set, delivered_at, i) ==
    IF i > Len(KeywordSets) THEN st
    ELSE IF KeywordSets[i].id \in DOMAIN selected_by_set
         THEN RecordFrom(record_deliveries(st, run_id, KeywordSets[i].id,
                                           selected_by_set[KeywordSets[i].id], delivered_at),
                         run_id, selected_by_set, delivered_at, i + 1)
         ELSE RecordFrom(st, run_id, selected_by_set, delivered_at, i + 1)

SendLoopExitIgnoringErrors(send_errors) == "record"

\* After the send loop: raise when any send failed, else go on to record.
SendLoopExit(send_errors) == IF send_errors # <<>> THEN "raise" ELSE "record"

RunNone ==
    [dry_run |-> FALSE, smtp |-> FALSE, max_total_items |-> 0, run_id |-> 0,
     fetched_count |-> 0, scored |-> {}, candidates |-> <<>>,
     ranked |-> <<>>, filtered |-> <<>>,
     selected_by_set |-> <<>>, recipients |-> <<>>,
     sent_recipients |-> <<>>, send_errors |-> <<>>, recorded |-> FALSE,
     outcome |-> "none", digest_sent |-> FALSE]

HistNone ==
    [startDeliveries |-> {}, startItems |-> {},
     sentCount |-> [p \in EnabledIds \X UrlKeys |-> 0], cutPairs |-> {}]

\* Counting up to "more than once".
Bump(n) == IF n < 2 THEN n + 1 ELSE n

-----------------------------------------------------------------------------
(* run_pipeline *)

\* Lines 82-142: fetch, score, upsert, dedupe, cap, recipients, and the
\* dry-run return (with its purge) or the missing-SMTP error.
RunStart(S, dry_run, smtp, max_total_items, send_admin_copy) ==
    /\ pc = "idle"
    /\ runs < MaxRuns
    /\ LET feed == FeedOf(S, 1, now)
           scored_by_set == score_items(feed, KeywordSets)
           att == attach_item_ids([tbl |-> items, seq |-> itemSeq, ids |-> <<>>], feed)
           deduped == [id \in EnabledIds |->
                          DedupedRecords(deliveries, KeywordSetById(id), scored_by_set, att.ids)]
           filtered == [id \in EnabledIds |->
                          filter_new_records(deliveries, KeywordSetById(id), scored_by_set, att.ids)]
           selected_by_set == apply_total_limit(filtered, KeywordSets, max_total_items)
           recipients == resolve_recipients(active_subscriber_emails(subscribers),
                                            AdminEmail, send_admin_copy)
           purged == purge_older_than(att.tbl, deliveries, RetentionDays, now)
           r == [dry_run |-> dry_run, smtp |-> smtp, max_total_items |-> max_total_items,
                 run_id |-> runs + 1, fetched_count |-> Len(feed),
                 scored |-> PairsOfScored(scored_by_set), candidates |-> KeysOf(deduped),
                 ranked |-> RankedOf(scored_by_set, att.ids), filtered |-> EntriesOf(filtered),
                 selected_by_set |-> selected_by_set, recipients |-> recipients,
                 sent_recipients |-> <<>>, send_errors |-> <<>>, recorded |-> FALSE,
                 outcome |-> "running", digest_sent |-> FALSE]
       IN /\ runs' = runs + 1
          /\ itemSeq' = att.seq
          /\ hist' = [hist EXCEPT !.startDeliveries = deliveries,
                                  !.startItems = items,
                                  !.cutPairs = @ \cup (PairsOf(deduped) \ PairsOf(selected_by_set))]
          /\ IF dry_run
             THEN /\ items' = purged.items
                  /\ deliveries' = purged.deliveries
                  /\ pc' = "done"
                  /\ run' = [r EXCEPT !.outcome = "returned"]
             ELSE IF ~smtp
             THEN /\ items' = att.tbl
                  /\ deliveries' = deliveries
                  /\ pc' = "done"
                  /\ run' = [r EXCEPT !.outcome = "raised_smtp"]
             ELSE /\ items' = att.tbl
                  /\ deliveries' = deliveries
                  /\ pc' = "send"
                  /\ run' = r
    /\ UNCHANGED <<now, ticks, deliverySeq, subscribers, directCall, publishVars, draftVars>>

\* Lines 144-162: one iteration of the send loop; after the last recipient
\* the run raises when a send failed, else digest_sent becomes True.
SendOne(ok) ==
    /\ pc = "send"
    /\ LET i == Len(run.sent_recipients) + Len(run.send_errors) + 1
           recipient == run.recipients[i]
           sent == IF ok THEN Append(run.sent_recipients, recipient) ELSE run.sent_recipients
           errs == IF ok THEN run.send_errors ELSE Append(run.send_errors, recipient)
           r == [run EXCEPT !.sent_recipients = sent, !.send_errors = errs]
       IN IF i < Len(run.recipients)
          THEN /\ run' = r
               /\ pc' = "send"
               /\ hist' = hist
          ELSE IF SendLoopExit(errs) = "raise"
          THEN /\ run' = [r EXCEPT !.outcome = "raised_send"]
               /\ pc' = "done"
               /\ hist' = hist
          ELSE /\ run' = [r EXCEPT !.digest_sent = TRUE]
               /\ pc' = "record"
               /\ hist' = [hist EXCEPT
                     !.sentCount = [p \in DOMAIN @ |->
                                       IF p \in PairsOf(run.selected_by_set) THEN Bump(@[p]) ELSE @[p]],
                     !.cutPairs = @ \ PairsOf(run.selected_by_set)]
    /\ UNCHANGED <<now, ticks, storeVars, runs, directCall, publishVars, draftVars>>

\* Lines 164-171: the Delivery rows of the digest.
Record ==
    /\ pc = "record"
    /\ LET st == RecordFrom([tbl |-> deliveries, seq |-> deliverySeq], run.run_id,
                            run.selected_by_set, now, 1)
       IN /\ deliveries' = st.tbl
          /\ deliverySeq' = st.seq
    /\ run' = [run EXCEPT !.recorded = TRUE]
    /\ pc' = "purge"
    /\ UNCHANGED <<now, ticks, items, itemSeq, subscribers, runs, hist, directCall, publishVars, draftVars>>

\* Lines 172-181: the retention purge and the return.
Purge ==
    /\ pc = "purge"
    /\ LET purged == purge_older_than(items, deliveries, RetentionDays, now)
       IN /\ items' = purged.items
          /\ deliveries' = purged.deliveries
    /\ run' = [run EXCEPT !.outcome = "returned"]
    /\ pc' = "done"
    /\ UNCHANGED <<now, ticks, itemSeq, deliverySeq, subscribers, runs, hist, directCall, publishVars, draftVars>>

\* Lines 182-183: finally store.close(); the locals of the run are gone.
Finish ==
    /\ pc = "done"
    /\ pc' = "idle"
    /\ run' = RunNone
    /\ hist' = [hist EXCEPT !.startDeliveries = {}, !.startItems = {}]
    /\ UNCHANGED <<now, ticks, storeVars, runs, directCall, publishVars, draftVars>>

\* Time passes between two runs of the batch job.
Tick(d) ==
    /\ pc = "idle"
    /\ ticks < MaxTicks
    /\ now' = now + d
    /\ ticks' = ticks + 1
    /\ UNCHANGED <<storeVars, pc, run, runs, hist, directCall, publishVars, draftVars>>

\* policy and safety_errors are set by the branches that read them.
PubNone ==
    [valid |-> FALSE, draft |-> <<>>,
     mode |-> "none", force |-> FALSE, dry_run_arg |-> FALSE, date |-> 0,
     status |-> "none", skipped |-> FALSE, route |-> "", dry_run |-> FALSE,
     policy |-> "none", called |-> FALSE, call_ok |-> FALSE, calls |-> <<>>,
     raised |-> "none", raised_missing |-> <<>>, env |-> "unread", ext_len |-> 0,
     response_id |-> NULL, receipt |-> "none", wrote |-> FALSE,
     missing_requirements |-> <<>>, safety_errors |-> <<>>, pc |-> "idle"]

\* dry run; live without SMTP settings; live with SMTP settings.
RunKinds ==
    {[dry_run |-> TRUE, smtp |-> FALSE], [dry_run |-> FALSE, smtp |-> FALSE],
     [dry_run |-> FALSE, smtp |-> TRUE]}

DraftNone ==
    [pc |-> "idle", date |-> 0, force |-> FALSE, skipped |-> FALSE, content |-> <<>>,
     item_count |-> 0, raised |-> "none"]

InitPublish ==
    /\ posts = {}
    /\ pub = PubNone
    /\ pubs = 0
    /\ pubHist = [extOk |-> <<>>, dryDates |-> {}]

InitPipeline ==
    /\ now = 0
    /\ ticks = 0
    /\ items = {}
    /\ itemSeq = 0
    /\ deliveries = {}
    /\ deliverySeq = 0
    /\ subscribers = {[email |-> "sub1@example.com", email_norm |-> "sub1@example.com", status |-> "active"],
                      [email |-> "sub2@example.com", email_norm |-> "sub2@example.com", status |-> "stopped"]}
    /\ pc = "idle"
    /\ run = RunNone
    /\ runs = 0
    /\ hist = HistNone

InitDraft ==
    /\ drafts = {}
    /\ draftFiles = <<>>
    /\ draft = DraftNone
    /\ draftHist = <<>>

Init ==
    /\ InitPipeline
    /\ InitPublish
    /\ InitDraft
    /\ directCall = [op |-> "none"]

Next ==
    \/ \E S \in FeedChoices, k \in RunKinds, m \in MaxTotalChoices :
          RunStart(S, k.dry_run, k.smtp, m, TRUE)
    \/ \E ok \in BOOLEAN : SendOne(ok)
    \/ Record
    \/ Purge
    \/ Finish
    \/ \E d \in TickSteps : Tick(d)

Spec == Init /\ [][Next]_vars

-----------------------------------------------------------------------------
(* The store called directly: any sequence of record_deliveries batches *)

StoreItemIds == {1, 2}

\* The callers: each passes its run id, the score of its records and its instant.
StoreCallers ==
    {[run_id |-> 1, score |-> 10, delivered_at |-> 0],
     [run_id |-> 2, score |-> 20, delivered_at |-> 5]}

StoreRecords(score) == {[item_id |-> i, scored_item |-> [score |-> score]] : i \in StoreItemIds}

RECURSIVE SeqsUpTo(_, _)
SeqsUpTo(S, n) ==
    IF n = 0 THEN {<<>>}
    ELSE LET shorter == SeqsUpTo(S, n - 1)
         IN shorter \cup {Append(q, x) : q \in shorter, x \in S}

PairTaken(tbl, keyword_set_id, item_id) ==
    \E d \in tbl : d.keyword_set_id = keyword_set_id /\ d.item_id = item_id

\* SQLiteStore.record_deliveries(run_id, keyword_set_id, records, delivered_at)
StoreRecordDeliveries(run_id, keyword_set_id, records, delivered_at) ==
    /\ LET st == record_deliveries([tbl |-> deliveries, seq |-> deliverySeq],
                                   run_id, keyword_set_id, records, delivered_at)
       IN /\ deliveries' = st.tbl
          /\ deliverySeq' = st.seq
    /\ directCall' =
         [op |-> "record_deliveries", run_id |-> run_id, keyword_set_id |-> keyword_set_id,
          repeated |-> {records[i].item_id : i \in
                           {j \in 1..Len(records) :
                               \/ PairTaken(deliveries, keyword_set_id, records[j].item_id)
                               \/ \E k \in 1..(j - 1) : records[k].item_id = records[j].item_id}}]
    /\ UNCHANGED <<items, itemSeq, subscribers, pipelineVars, publishVars, draftVars>>

NextStore ==
    \E c \in StoreCallers, id \in EnabledIds :
       \E records \in SeqsUpTo(StoreRecords(c.score), MaxBatch) :
          StoreRecordDeliveries(c.run_id, id, records, c.delivered_at)

SpecStore == Init /\ [][NextStore]_vars

-----------------------------------------------------------------------------
(* Properties of the delivery ledger *)

SamePair(d, e) == d.keyword_set_id = e.keyword_set_id /\ d.item_id = e.item_id

OneRowPerPair == \A d, e \in deliveries : SamePair(d, e) => d = e

FirstRowKept == \A d \in deliveries : (\E e \in deliveries' : SamePair(d, e)) => d \in deliveries'

\* C1: after any sequence of record_deliveries calls the deliveries table
\* holds at most one row per (keyword_set_id, item_id), and a write of a pair
\* that already has a row leaves that row (id, run_id, score, delivered_at)
\* as it was.
C1_IdempotentInsert == []OneRowPerPair /\ [][FirstRowKept]_vars

\* A batch repeated a pair that had a row (or repeated it inside the batch)
\* and the row in the table is not the one the repeating write carried.
C1_Witness ==
    /\ directCall.op = "record_deliveries"
    /\ \E i \in directCall.repeated :
          \E d \in deliveries :
             /\ d.keyword_set_id = directCall.keyword_set_id
             /\ d.item_id = i
             /\ d.run_id # directCall.run_id

-----------------------------------------------------------------------------
(* Properties of run_pipeline *)

RowOfPair(ks, key) ==
    \E i \in items : \E d \in deliveries :
        i.url_key = key /\ d.item_id = i.id /\ d.keyword_set_id = ks

ItemIds(tbl) == {i.id : i \in tbl}

\* C2: a (keyword set, canonical URL key) pair is part of a successfully
\* sent digest in at most one run, however long the item stays in the feeds.
C2_AtMostOneDigestEver == \A p \in DOMAIN hist.sentCount : hist.sentCount[p] <= 1

\* C5: once a send of a live run has failed, the deliveries table stays as it
\* was when the run started and no item is purged; the run ends by raising.
C5_FailedSendWritesNothing ==
    run.send_errors # <<>> =>
        /\ deliveries = hist.startDeliveries
        /\ ItemIds(hist.startItems) \subseteq ItemIds(items)
        /\ ~run.recorded
        /\ pc \in {"send", "done"}
        /\ pc = "done" => run.outcome = "raised_send"

\* A run that raised after one recipient was served and another failed, with
\* a non-empty digest and an expired Delivery row the purge would have taken.
C5_Witness ==
    /\ pc = "done"
    /\ run.outcome = "raised_send"
    /\ run.sent_recipients # <<>>
    /\ PairsOf(run.selected_by_set) # {}
    /\ \E d \in deliveries : d.delivered_at < Cutoff(now, RetentionDays)

RowsAddedOnlyAfterAllSent ==
    (deliveries' \ deliveries # {}) =>
        /\ pc = "record"
        /\ run.digest_sent
        /\ run.send_errors = <<>>
        /\ run.sent_recipients = run.recipients

DigestRowsExact ==
    (pc = "done" /\ run.digest_sent) =>
        {<<d.keyword_set_id, d.item_id>> : d \in {e \in deliveries : e.run_id = run.run_id}}
          = UNION {{<<id, run.selected_by_set[id][i].item_id>> :
                        i \in 1..Len(run.selected_by_set[id])} : id \in DOMAIN run.selected_by_set}

PurgeOnlyAfterRecord ==
    (/\ ~run'.dry_run
     /\ \/ \E d \in deliveries : d \notin deliveries'
        \/ \E i \in ItemIds(items) : i \notin ItemIds(items'))
      => (pc = "purge" /\ run.recorded)

C7_DryRunLeavesLedger ==
    (pc = "done" /\ run.dry_run) => (deliveries = hist.startDeliveries /\ run.sent_recipients = <<>>)

CutPairsHaveNoRow == \A p \in hist.cutPairs : ~RowOfPair(p[1], p[2])

PositionIn(s, x) == CHOOSE i \in 1..Len(s) : s[i] = x

\* The budget left when _apply_total_limit reaches keyword set id.
BudgetLeftFor(r, id) ==
    r.max_total_items
      - SumLens(r.selected_by_set,
                {KeywordSets[j].id : j \in {k \in 1..Len(KeywordSets) :
                     /\ KeywordSets[k].enabled
                     /\ k < (CHOOSE m \in 1..Len(KeywordSets) : KeywordSets[m].id = id)}})

CutPairsReselected ==
    (pc = "idle" /\ pc' # "idle") =>
        \A p \in hist.cutPairs :
            p \in run'.scored =>
                /\ p[2] \in Range(run'.candidates[p[1]])
                /\ (PositionIn(run'.candidates[p[1]], p[2])
                        <= Min(KeywordSetById(p[1]).top_n, BudgetLeftFor(run', p[1])))
                     => p \in PairsOf(run'.selected_by_set)

\* C10: a pair that matched but was cut by top_n or by the global cap has no
\* Delivery row, and a later run that fetches the item again takes it as a
\* candidate and selects it when its rank fits top_n and the budget left.
C10_CutItemsStayEligible == []CutPairsHaveNoRow /\ [][CutPairsReselected]_vars

\* A run selected a pair that an earlier run had cut.
C10_Witness ==
    /\ pc = "send"
    /\ \E p \in hist.cutPairs : p \in PairsOf(run.selected_by_set)

-----------------------------------------------------------------------------
(* x_publish.py *)

JstOffsetHours == 9
MAX_POST_LENGTH == 280

MODE_AUTO == "auto"
MODE_MANUAL == "manual"
MODE_WEBHOOK == "webhook"
MODE_X_API_V2 == "x_api_v2"
SUPPORTED_MODES == {MODE_AUTO, MODE_MANUAL, MODE_WEBHOOK, MODE_X_API_V2}

ON_MISSING_ROUTE_FAIL == "fail"
ON_MISSING_ROUTE_DRY_RUN_SUCCESS == "dry-run-success"
SUPPORTED_MISSING_ROUTE_POLICIES == {ON_MISSING_ROUTE_FAIL, ON_MISSING_ROUTE_DRY_RUN_SUCCESS}

\* _post_date_jst: the calendar day of the instant at UTC+9, as a day number.
post_date_jst(now_utc) == (now_utc + JstOffsetHours) \div 24

\* str.strip() on the credential strings the model uses.
Strip(str) == IF str = " " THEN "" ELSE str

LpUrl == Url("/lp", <<>>)

\* The public link as a post carries it, with a tracking parameter, and another page.
TrackedLpUrl == Url("/lp", <<Param("utm_source")>>)
OtherUrl == Url("/a", <<>>)

\* A draft file is NULL (no file) or <<text>>; a text is [len, urls].
\* _load_draft_text: the text and the load error.
load_draft_text(file) ==
    IF file = NULL THEN [text |-> [len |-> 0, urls |-> <<>>], load_error |-> <<"not found">>]
    ELSE IF file[1].len = 0 THEN [text |-> [len |-> 0, urls |-> <<>>], load_error |-> <<"empty">>]
    ELSE [text |-> file[1], load_error |-> NULL]

validate_post_text_from_282(text, lp_url) ==
    (IF text.len = 0 THEN <<"post text is empty">> ELSE <<>>)
    \o (IF text.len > MAX_POST_LENGTH + 1 THEN <<"post text exceeds length">> ELSE <<>>)
    \o (IF Len(text.urls) > 1 THEN <<"post text has multiple URLs">> ELSE <<>>)
    \o (IF lp_url # <<>> /\ text.urls # <<>> /\ normalize_url(lp_url[1]) # normalize_url(text.urls[1])
        THEN <<"post URL does not match LP URL">> ELSE <<>>)

\* _validate_post_text: the list of errors; lp_url is <<>> when not configured.
validate_post_text(text, lp_url) ==
    (IF text.len = 0 THEN <<"post text is empty">> ELSE <<>>)
    \o (IF text.len > MAX_POST_LENGTH THEN <<"post text exceeds length">> ELSE <<>>)
    \o (IF Len(text.urls) > 1 THEN <<"post text has multiple URLs">> ELSE <<>>)
    \o (IF lp_url # <<>> /\ text.urls # <<>> /\ normalize_url(lp_url[1]) # normalize_url(text.urls[1])
        THEN <<"post URL does not match LP URL">> ELSE <<>>)

resolve_route_tokens_first(mode, webhook_url, x_user_access_token, x_api_bearer_token) ==
    LET webhook == Strip(webhook_url)
        user_token == Strip(x_user_access_token)
        app_token == Strip(x_api_bearer_token)
        direct == IF user_token # "" THEN user_token ELSE app_token
    IN IF mode = MODE_MANUAL
       THEN [route |-> MODE_MANUAL, missing_requirements |-> <<>>, direct_token |-> ""]
       ELSE IF mode # MODE_WEBHOOK /\ direct # ""
       THEN [route |-> MODE_X_API_V2, missing_requirements |-> <<>>, direct_token |-> direct]
       ELSE IF mode # MODE_X_API_V2 /\ webhook # ""
       THEN [route |-> MODE_WEBHOOK, missing_requirements |-> <<>>, direct_token |-> ""]
       ELSE [route |-> "",
             missing_requirements |->
                 CASE mode = MODE_WEBHOOK -> <<"X_WEBHOOK_URL">>
                   [] mode = MODE_X_API_V2 -> <<"X_USER_ACCESS_TOKEN", "X_API_BEARER_TOKEN">>
                   [] OTHER -> <<"X_WEBHOOK_URL", "X_USER_ACCESS_TOKEN", "X_API_BEARER_TOKEN">>,
             direct_token |-> ""]

resolve_route(mode, webhook_url, x_user_access_token, x_api_bearer_token) ==
    LET webhook == Strip(webhook_url)
        user_token == Strip(x_user_access_token)
        app_token == Strip(x_api_bearer_token)
    IN IF mode = MODE_MANUAL
       THEN [route |-> MODE_MANUAL, missing_requirements |-> <<>>, direct_token |-> ""]
       ELSE IF mode = MODE_WEBHOOK
       THEN IF webhook # ""
            THEN [route |-> MODE_WEBHOOK, missing_requirements |-> <<>>, direct_token |-> ""]
            ELSE [route |-> "", missing_requirements |-> <<"X_WEBHOOK_URL">>, direct_token |-> ""]
       ELSE IF mode = MODE_X_API_V2
       THEN IF user_token # ""
            THEN [route |-> MODE_X_API_V2, missing_requirements |-> <<>>, direct_token |-> user_token]
            ELSE IF app_token # ""
            THEN [route |-> MODE_X_API_V2, missing_requirements |-> <<>>, direct_token |-> app_token]
            ELSE [route |-> "",
                  missing_requirements |-> <<"X_USER_ACCESS_TOKEN", "X_API_BEARER_TOKEN">>,
                  direct_token |-> ""]
       ELSE IF webhook # ""
       THEN [route |-> MODE_WEBHOOK, missing_requirements |-> <<>>, direct_token |-> ""]
       ELSE IF user_token # ""
       THEN [route |-> MODE_X_API_V2, missing_requirements |-> <<>>, direct_token |-> user_token]
       ELSE IF app_token # ""
       THEN [route |-> MODE_X_API_V2, missing_requirements |-> <<>>, direct_token |-> app_token]
       ELSE [route |-> "",
             missing_requirements |-> <<"X_WEBHOOK_URL", "X_USER_ACCESS_TOKEN", "X_API_BEARER_TOKEN">>,
             direct_token |-> ""]

\* store.x_post_for_date: <<row>> of the date, or NULL.
x_post_for_date(tbl, date) ==
    IF \E r \in tbl : r.post_date_jst = date
    THEN <<CHOOSE r \in tbl : r.post_date_jst = date>>
    ELSE NULL

\* store.record_x_post: upsert on post_date_jst when overwrite, else a plain
\* INSERT that fails on an existing date.
record_x_post(tbl, row, overwrite) ==
    IF overwrite
    THEN [tbl |-> {r \in tbl : r.post_date_jst # row.post_date_jst} \cup {row}, raised |-> FALSE]
    ELSE IF \E r \in tbl : r.post_date_jst = row.post_date_jst
    THEN [tbl |-> tbl, raised |-> TRUE]
    ELSE [tbl |-> tbl \cup {row}, raised |-> FALSE]

duplicate_found_when_posted(existing, force) ==
    existing # NULL /\ existing[1].status = "posted" /\ ~force

\* Line 270.
duplicate_found_unless_failed(existing, force) ==
    existing # NULL /\ ~force /\ existing[1].status # "failed"

duplicate_found_unless_manual_ready(existing, force) ==
    existing # NULL /\ ~force /\ existing[1].status # "manual_ready"

duplicate_found(existing, force) == existing # NULL /\ ~force

MissingRouteOutcomeAlwaysFallback(on_missing_route) == "fallback"

\* Lines 362-404: the policy for a live run without a route.
MissingRouteOutcome(on_missing_route) ==
    IF on_missing_route = ON_MISSING_ROUTE_DRY_RUN_SUCCESS THEN "fallback" ELSE "config_error"

BranchDryRunOnlyWithoutRoute(dup, dry_run, route, mode, on_missing_route, safety_errors) ==
    IF dup THEN "skipped"
    ELSE IF route = "" /\ mode # MODE_MANUAL
    THEN IF dry_run THEN "dry_run"
         ELSE MissingRouteOutcome(on_missing_route)
    ELSE IF safety_errors # <<>> THEN (IF dry_run THEN "dry_run" ELSE "safety_error")
    ELSE "execute"

\* The chain of early returns and raises of publish_x_post (lines 272-407).
Branch(dup, dry_run, route, mode, on_missing_route, safety_errors) ==
    IF dup THEN "skipped"
    ELSE IF dry_run THEN "dry_run"
    ELSE IF route = "" /\ mode # MODE_MANUAL THEN MissingRouteOutcome(on_missing_route)
    ELSE IF safety_errors # <<>> THEN "safety_error"
    ELSE "execute"

DryRunStatusInvalidFirst(safety_errors, route, mode) ==
    IF safety_errors # <<>> THEN "dry_run_invalid"
    ELSE IF route = "" /\ mode # MODE_MANUAL THEN "dry_run_no_route"
    ELSE "dry_run"

\* Lines 316-320.
DryRunStatus(safety_errors, route, mode) ==
    IF route = "" /\ mode # MODE_MANUAL THEN "dry_run_no_route"
    ELSE IF safety_errors # <<>> THEN "dry_run_invalid"
    ELSE "dry_run"

\* What the outside world does to a live invocation that reaches line 409:
\* the external call fails with an error message of len characters (and the
\* write of the failed row may fail too); it succeeds with a response body of
\* len characters and maybe an id, and the row is written; it succeeds and the
\* process dies before the row is written; it succeeds and record_x_post raises.
EnvOk == [kind |-> "ok", len |-> 50, id |-> <<"id-1">>]

EnvOutcomes ==
    {EnvOk,
     [kind |-> "ok", len |-> 2500, id |-> NULL],
     [kind |-> "call_fails", len |-> 450, id |-> NULL],
     [kind |-> "call_fails_write_raises", len |-> 450, id |-> NULL],
     [kind |-> "crash_before_write", len |-> 50, id |-> <<"id-1">>],
     [kind |-> "write_raises", len |-> 50, id |-> <<"id-1">>]}

FAILURE_REASON_LIMIT == 400
RESPONSE_BODY_LIMIT == 2000

\* text[:limit] of a text of len characters, as the length kept.
Truncate(len, limit) == Min(len, limit)

FailureReasonUncut(len) == len

\* Line 427: str(exc)[:400]
FailureReason(len) == Truncate(len, FAILURE_REASON_LIMIT)

ResponseBodyUncut(len) == len

\* Line 447: (response_body or "")[:2000]
ResponseBody(len) == Truncate(len, RESPONSE_BODY_LIMIT)

\* len("manual mode: no external post executed")
ManualBodyLen == 38

\* Lines 259-313 and the choice of lines 272-407: the locals of publish_x_post
\* before anything is written, and the branch it takes.
PublishLocals(a, tbl, now_utc) ==
    LET date == post_date_jst(now_utc)
        loaded == load_draft_text(a.file)
        existing == x_post_for_date(tbl, date)
        dup == duplicate_found(existing, a.force)
        direct_api_token == IF a.x_api_bearer_token # "" THEN a.x_api_bearer_token ELSE a.bearer_token
        rr == resolve_route(a.mode, a.webhook_url, a.x_user_access_token, direct_api_token)
        safety_errors == validate_post_text(loaded.text, a.lp_url)
                         \o (IF loaded.load_error # NULL THEN loaded.load_error ELSE <<>>)
    IN [date |-> date, existing |-> existing, rr |-> rr, safety_errors |-> safety_errors,
        branch |-> Branch(dup, a.dry_run, rr.route, a.mode, a.on_missing_route, safety_errors),
        manual |-> a.mode = MODE_MANUAL \/ rr.route = MODE_MANUAL]

\* publish_x_post from line 259 on, for arguments a, the x_posts table and the
\* instant; the result is the outcome of the invocation and the table after it.
PublishOutcome(a, tbl, now_utc, env, locals) ==
    LET date == locals.date
        existing == locals.existing
        rr == locals.rr
        safety_errors == locals.safety_errors
        branch == locals.branch
        base == [valid |-> TRUE, mode |-> a.mode, force |-> a.force, dry_run_arg |-> a.dry_run,
                 policy |-> "unread", draft |-> <<[file |-> a.file, lp_url |-> a.lp_url]>>,
                 date |-> date, status |-> "none", skipped |-> FALSE, route |-> rr.route,
                 dry_run |-> FALSE, called |-> FALSE, call_ok |-> FALSE, calls |-> <<>>,
                 raised |-> "none", raised_missing |-> <<>>, env |-> "unread", ext_len |-> 0,
                 response_id |-> NULL, receipt |-> "none", wrote |-> FALSE,
                 missing_requirements |-> rr.missing_requirements,
                 safety_errors |-> <<>>, pc |-> "done"]
        manual == locals.manual
        route == IF manual THEN MODE_MANUAL ELSE rr.route
        row(status, response_id, response_body, failure_reason) ==
            [post_date_jst |-> date, posted_at |-> now_utc, mode |-> a.mode,
             route |-> IF route = "" THEN "none" ELSE route, status |-> status,
             response_id |-> response_id, response_body |-> response_body,
             failure_reason |-> failure_reason]
        \* Lines 410-425: no call in manual mode, else one call on the route's endpoint.
        attempted == [base EXCEPT !.called = ~manual, !.env = env.kind,
                                  !.calls = IF manual THEN <<>> ELSE <<rr.route>>,
                                  !.ext_len = IF manual THEN ManualBodyLen ELSE env.len]
        succeeded == [attempted EXCEPT !.call_ok = ~manual]
        reason == FailureReason(env.len)
        outcome ==
            CASE branch = "skipped" ->
                   [pub |-> [base EXCEPT !.status = "skipped", !.skipped = TRUE,
                                         !.route = existing[1].route, !.dry_run = a.dry_run,
                                         !.receipt = "skipped", !.missing_requirements = <<>>],
                    posts |-> tbl]
              [] branch = "dry_run" ->
                   [pub |-> [base EXCEPT !.status = DryRunStatus(safety_errors, rr.route, a.mode),
                                         !.route = IF rr.route = "" THEN "none" ELSE rr.route,
                                         !.dry_run = TRUE, !.receipt = "dry-run",
                                         !.safety_errors = safety_errors],
                    posts |-> tbl]
              [] branch = "fallback" ->
                   [pub |-> [base EXCEPT !.status = "dry_run_no_route", !.route = "none",
                                         !.dry_run = TRUE, !.receipt = "fallback-dry-run",
                                         !.policy = a.on_missing_route,
                                         !.safety_errors = safety_errors],
                    posts |-> tbl]
              [] branch = "config_error" ->
                   [pub |-> [base EXCEPT !.raised = "LivePublishConfigError",
                                         !.policy = a.on_missing_route,
                                         !.raised_missing = rr.missing_requirements],
                    posts |-> tbl]
              [] branch = "safety_error" ->
                   [pub |-> [base EXCEPT !.raised = "ValueError",
                                         !.safety_errors = safety_errors],
                    posts |-> tbl]
              [] branch = "execute" ->
                   IF ~manual /\ env.kind = "call_fails"
                   THEN [pub |-> [attempted EXCEPT !.raised = "call_error"],
                         posts |-> record_x_post(tbl, row("failed", NULL, <<reason>>, <<reason>>),
                                                 a.force).tbl]
                   ELSE IF ~manual /\ env.kind = "call_fails_write_raises"
                   THEN [pub |-> [attempted EXCEPT !.raised = "call_error"],
                         posts |-> tbl]
                   ELSE IF env.kind = "crash_before_write"
                   THEN [pub |-> [succeeded EXCEPT !.raised = "crash"], posts |-> tbl]
                   ELSE IF env.kind = "write_raises"
                   THEN [pub |-> [succeeded EXCEPT !.raised = "write_error"], posts |-> tbl]
                   ELSE LET w == IF manual
                                 THEN record_x_post(tbl, row("manual_ready", NULL,
                                                             <<ResponseBody(ManualBodyLen)>>,
                                                             NULL),
                                                    a.force)
                                 ELSE record_x_post(tbl, row("posted", env.id,
                                                             <<ResponseBody(env.len)>>,
                                                             NULL),
                                                    a.force)
                        IN IF w.raised
                           THEN [pub |-> [succeeded EXCEPT !.raised = "write_error"], posts |-> tbl]
                           ELSE [pub |-> [succeeded EXCEPT
                                            !.status = IF manual THEN "manual_ready" ELSE "posted",
                                            !.route = route, !.receipt = route,
                                            !.response_id = IF manual THEN NULL ELSE env.id],
                                 posts |-> w.tbl]
    IN outcome

publish_x_post(a, tbl, now_utc, env) ==
    PublishOutcome(a, tbl, now_utc, env, PublishLocals(a, tbl, now_utc))

\* Lines 252-257: the argument checks.
ArgsValid(a) ==
    /\ a.mode \in SUPPORTED_MODES
    /\ a.on_missing_route \in SUPPORTED_MISSING_ROUTE_POLICIES
    /\ ~(a.dry_run /\ a.live)

Credentials ==
    {[webhook_url |-> "", x_user_access_token |-> "", x_api_bearer_token |-> "", bearer_token |-> ""],
     [webhook_url |-> " ", x_user_access_token |-> "", x_api_bearer_token |-> "", bearer_token |-> "app"],
     [webhook_url |-> "hook", x_user_access_token |-> "user", x_api_bearer_token |-> "app", bearer_token |-> ""]}

\* The draft file of the day and the configured public link.
Drafts ==
    {[file |-> <<[len |-> MAX_POST_LENGTH, urls |-> <<TrackedLpUrl>>]>>, lp_url |-> <<LpUrl>>],
     [file |-> NULL, lp_url |-> <<LpUrl>>],
     [file |-> <<[len |-> MAX_POST_LENGTH + 1, urls |-> <<LpUrl>>]>>, lp_url |-> <<>>],
     [file |-> <<[len |-> 100, urls |-> <<LpUrl, OtherUrl>>]>>, lp_url |-> <<LpUrl>>],
     [file |-> <<[len |-> 100, urls |-> <<OtherUrl>>]>>, lp_url |-> <<LpUrl>>]}

\* The draft the earlier invocations of a date are made with.
CanonicalDraft == CHOOSE d \in Drafts : d.file # NULL /\ d.file[1].len = MAX_POST_LENGTH

ValidArgs ==
    {c @@ d @@ [mode |-> m, on_missing_route |-> p, dry_run |-> dr, live |-> ~dr, force |-> f] :
        c \in Credentials, d \in Drafts, m \in SUPPORTED_MODES,
        p \in SUPPORTED_MISSING_ROUTE_POLICIES, dr \in BOOLEAN, f \in BOOLEAN}

InvalidArgs ==
    LET c == CHOOSE x \in Credentials : x.webhook_url = "hook" /\ x.x_user_access_token = "user"
        d == CanonicalDraft
        ok == c @@ d @@ [mode |-> MODE_AUTO, on_missing_route |-> ON_MISSING_ROUTE_FAIL,
                         dry_run |-> FALSE, live |-> TRUE, force |-> FALSE]
    IN {[ok EXCEPT !.mode = "sms"], [ok EXCEPT !.on_missing_route = "ignore"],
        [ok EXCEPT !.dry_run = TRUE]}

BumpAt(f, d) == IF d \in DOMAIN f THEN [f EXCEPT ![d] = Bump(@)] ELSE (d :> 1) @@ f

\* The outcomes of the outside world an invocation with arguments a can meet.
\* An argument or an outcome that the invocation never reads is taken at one
\* value only: the policy outside lines 361-404, the draft when the duplicate
\* check returns, the outside world before line 409.
EnvFor(a, tbl, now_utc) ==
    IF ~ArgsValid(a) THEN {EnvOk}
    ELSE LET l == PublishLocals(a, tbl, now_utc)
         IN IF l.branch \notin {"fallback", "config_error"}
               /\ a.on_missing_route # ON_MISSING_ROUTE_FAIL
            THEN {}
            ELSE IF l.branch = "skipped"
                    /\ ~(a.file = NULL \/ a.file = CanonicalDraft.file)
            THEN {}
            ELSE IF l.branch # "execute" THEN {EnvOk}
            ELSE IF l.manual
            THEN {e \in EnvOutcomes : e = EnvOk \/ e.kind \in {"crash_before_write", "write_raises"}}
            ELSE EnvOutcomes

\* The invocation's result r becomes the state.
PublishXPostReturns(a, r) ==
    /\ pub' = [r.pub EXCEPT !.wrote = (r.posts # posts)]
    /\ posts' = r.posts
    /\ pubHist' =
         [extOk |-> IF r.pub.call_ok /\ ~a.force
                    THEN BumpAt(pubHist.extOk, r.pub.date) ELSE pubHist.extOk,
          dryDates |-> IF r.pub.dry_run /\ a.dry_run
                       THEN pubHist.dryDates \cup {r.pub.date} ELSE pubHist.dryDates]

PublishXPost(a, env) ==
    /\ pub.pc = "idle"
    /\ pubs < MaxPublishes
    /\ pubs' = pubs + 1
    /\ IF ~ArgsValid(a)
       THEN /\ pub' = [PubNone EXCEPT !.mode = a.mode, !.force = a.force,
                                      !.dry_run_arg = a.dry_run, !.date = post_date_jst(now),
                                      !.raised = "ValueError", !.pc = "done"]
            /\ UNCHANGED <<posts, pubHist>>
       ELSE PublishXPostReturns(a, publish_x_post(a, posts, now, env))
    /\ UNCHANGED <<now, ticks, storeVars, pc, run, runs, hist, directCall, draftVars>>

\* The invocation has returned or raised; the caller goes on.
PublishReturn ==
    /\ pub.pc = "done"
    /\ pub' = PubNone
    /\ UNCHANGED <<now, ticks, storeVars, pc, run, runs, hist, directCall, posts, pubs, pubHist, draftVars>>

\* The clock advance between invocations, in hours: 15:00 UTC is midnight in JST.
PubTickSteps == {15}

PublishTick(d) ==
    /\ pub.pc = "idle"
    /\ ticks < MaxTicks
    /\ now' = now + d
    /\ ticks' = ticks + 1
    /\ UNCHANGED <<storeVars, pc, run, runs, hist, directCall, publishVars, draftVars>>

NextPublish ==
    \/ /\ pub.pc = "idle"
       /\ pubs < MaxPublishes
       /\ \E a \in ValidArgs \cup InvalidArgs :
             \E env \in EnvFor(a, posts, now) : PublishXPost(a, env)
    \/ PublishReturn
    \/ \E d \in PubTickSteps : PublishTick(d)

SpecPublish == Init /\ [][NextPublish]_vars

-----------------------------------------------------------------------------
(* _apply_total_limit called directly on bounded inputs *)

LimitSetIds == <<"set-a", "set-b", "set-c">>

\* Keyword sets in declared order, each enabled or not.
LimitKeywordSets ==
    {[i \in 1..Len(LimitSetIds) |-> [id |-> LimitSetIds[i], enabled |-> e[i]]] :
        e \in [1..Len(LimitSetIds) -> BOOLEAN]}

LimitRecords(id, n) == [k \in 1..n |-> [item_id |-> k, keyword_set_id |-> id]]

\* selected_by_set: a list of 0..MaxListLen records for some of the ids (a key
\* may be absent, as for a set that _filter_new_records never saw).
LimitSelections ==
    UNION {{[id \in D |-> LimitRecords(id, n[id])] : n \in [D -> 0..MaxListLen]} :
              D \in SUBSET {LimitSetIds[i] : i \in 1..Len(LimitSetIds)}}

InitLimit ==
    /\ InitPipeline
    /\ InitPublish
    /\ InitDraft
    /\ directCall \in {[op |-> "input", selected_by_set |-> sel, keyword_sets |-> ks,
                        max_total_items |-> n, limited |-> <<>>] :
                          sel \in LimitSelections, ks \in LimitKeywordSets, n \in 1..MaxBudget}

ApplyTotalLimit ==
    /\ directCall.op = "input"
    /\ directCall' = [directCall EXCEPT
                        !.op = "apply_total_limit",
                        !.limited = apply_total_limit(directCall.selected_by_set,
                                                      directCall.keyword_sets,
                                                      directCall.max_total_items)]
    /\ UNCHANGED <<storeVars, pipelineVars, publishVars, draftVars>>

NextLimit == ApplyTotalLimit

SpecLimit == InitLimit /\ [][NextLimit]_vars

-----------------------------------------------------------------------------
(* Properties of the publish channel *)

HasPostRow(tbl, date) == \E r \in tbl : r.post_date_jst = date

PublishStep == pub.pc = "idle" /\ pub'.pc = "done"

\* C3: across non-forced live invocations for one JST date at most one
\* external post call succeeds, also when an invocation dies or raises between
\* the external call and the write of the Post row.
C3_AtMostOneExternalPostPerDate ==
    \A d \in DOMAIN pubHist.extOk : pubHist.extOk[d] <= 1

\* C4: once a Post row exists for a JST date, every later invocation for that
\* date with force = False that passes the argument checks returns status
\* "skipped" with skipped = True, makes no external call and leaves the table
\* as it was, whatever its mode and credentials.
C4_SkipOnExistingRow ==
    [][(PublishStep /\ pub'.valid /\ ~pub'.force /\ HasPostRow(posts, pub'.date))
         => (/\ pub'.status = "skipped"
             /\ pub'.skipped
             /\ ~pub'.called
             /\ posts' = posts)]_vars

C4_Witness ==
    /\ pub.status = "skipped"
    /\ pub.skipped
    /\ \E r \in posts : /\ r.post_date_jst = pub.date
                        /\ r.status = "posted"
                        /\ r.mode # pub.mode

\* C8: an invocation with dry_run = True makes no external call and leaves
\* the x_posts table as it was, for every mode, credential set and draft; and
\* a live invocation on a date that had a dry run but has no Post row is not
\* skipped.
C8_DryRunHasNoEffect ==
    [][PublishStep =>
         /\ pub'.dry_run_arg => (~pub'.called /\ posts' = posts)
         /\ (pub'.valid /\ ~pub'.dry_run_arg /\ pub'.date \in pubHist.dryDates
                /\ ~HasPostRow(posts, pub'.date)) => ~pub'.skipped]_vars

C8_Witness ==
    /\ pub.status = "posted"
    /\ pub.called
    /\ ~pub.dry_run_arg
    /\ pub.date \in pubHist.dryDates

-----------------------------------------------------------------------------
(* Properties of _apply_total_limit *)

\* Positions of the enabled sets declared before position i.
EnabledBefore(ks, i) == {j \in 1..(i - 1) : ks[j].enabled}

RecordsOf(sel, id) == IF id \in DOMAIN sel THEN sel[id] ELSE <<>>

BudgetAt(sel, ks, n, i) ==
    LET used == SumLens([j \in EnabledBefore(ks, i) |-> RecordsOf(sel, ks[j].id)],
                        EnabledBefore(ks, i))
    IN IF used >= n THEN 0 ELSE n - used

LimitCallDone == directCall.op = "apply_total_limit"

\* C9: _apply_total_limit gives each enabled set, in declared order, the first
\* min(len(records), remaining budget) of its records; the total returned is
\* min(max_total_items, total eligible); a set after the budget is spent gets
\* an empty list.
C9_TotalLimit ==
    LimitCallDone =>
        LET sel == directCall.selected_by_set
            ks == directCall.keyword_sets
            n == directCall.max_total_items
            limited == directCall.limited
            enabled == {i \in 1..Len(ks) : ks[i].enabled}
            eligible == SumLens([i \in enabled |-> RecordsOf(sel, ks[i].id)], enabled)
        IN /\ DOMAIN limited = {ks[i].id : i \in enabled}
           /\ \A i \in enabled :
                 /\ limited[ks[i].id] =
                      SubSeq(RecordsOf(sel, ks[i].id), 1,
                             Min(Len(RecordsOf(sel, ks[i].id)), BudgetAt(sel, ks, n, i)))
                 /\ BudgetAt(sel, ks, n, i) = 0 => limited[ks[i].id] = <<>>
           /\ SumLens([i \in enabled |-> limited[ks[i].id]], enabled) = Min(n, eligible)

C9_Witness ==
    /\ LimitCallDone
    /\ \A i \in 1..3 : directCall.keyword_sets[i].enabled
    /\ Len(directCall.limited["set-a"]) = 2
    /\ "set-b" \in DOMAIN directCall.selected_by_set
    /\ Len(directCall.selected_by_set["set-b"]) = 2
    /\ Len(directCall.limited["set-b"]) = 1
    /\ "set-c" \in DOMAIN directCall.selected_by_set
    /\ Len(directCall.selected_by_set["set-c"]) > 0
    /\ directCall.limited["set-c"] = <<>>

-----------------------------------------------------------------------------
(* Properties of _filter_new_records *)

RunComputed == pc # "idle"

PositionsOf(s, x) == {i \in 1..Len(s) : s[i] = x}

\* C11: for every keyword set the list returned by _filter_new_records has
\* no item id with a Delivery row of that set, has every item id at most once
\* (the highest-ranked occurrence of it), has at most top_n entries and is a
\* subsequence of the scorer's ranked list.
C11_FilterNewRecords ==
    RunComputed =>
        \A id \in EnabledIds :
            LET f == run.filtered[id]
                ranked == run.ranked[id]
                pos(i) == CHOOSE k \in PositionsOf(ranked, f[i]) : TRUE
            IN /\ \A i \in 1..Len(f) :
                     /\ ~\E d \in hist.startDeliveries :
                            d.keyword_set_id = id /\ d.item_id = f[i].item_id
                     /\ PositionsOf(ranked, f[i]) # {}
                     /\ \A k \in 1..Len(ranked) :
                            ranked[k].item_id = f[i].item_id => pos(i) <= k
               /\ \A i, j \in 1..Len(f) : i < j =>
                     /\ f[i].item_id # f[j].item_id
                     /\ pos(i) < pos(j)
               /\ Len(f) <= KeywordSetById(id).top_n

C11_Witness ==
    /\ pc = "send"
    /\ \E id \in EnabledIds :
          /\ run.filtered[id] # <<>>
          /\ \E k \in 2..Len(run.ranked[id]) :
                run.ranked[id][k].item_id = run.filtered[id][1].item_id
    /\ \E id \in EnabledIds :
          \E k \in 1..Len(run.ranked[id]) :
             \E d \in hist.startDeliveries :
                d.keyword_set_id = id /\ d.item_id = run.ranked[id][k].item_id

-----------------------------------------------------------------------------
(* x_draft.py *)

\* len() of the strings the model uses.
StrLen(str) ==
    CASE str = "" -> 0
      [] str = "cloud ops" -> 9
      [] str = "cloud ops urgent" -> 16
      [] str = "ops hardware" -> 12
      [] str = "orgA" -> 4
      [] str = "orgB" -> 4
      [] str = "https://example.com/lp" -> 22
      [] str = "a title of forty characters" -> 40
      [] str = "an organization of twenty" -> 20
      [] str = "a link of 120 characters" -> 120
      [] str = "a link of 180 characters" -> 180
      [] str = "a link of 200 characters" -> 200

\* A text is the sequence of its lines ("\n".join(lines)); a line is a record
\* with its length, so that text + "\n" is the text with one more, empty, line.
Line(kind, index, title, organization, len) ==
    [kind |-> kind, index |-> index, title |-> title, organization |-> organization, len |-> len]

EmptyLine == Line("empty", 0, "", "", 0)

RECURSIVE TextLen(_)
TextLen(lines) ==
    IF lines = <<>> THEN 0
    ELSE IF Len(lines) = 1 THEN lines[1].len
    ELSE lines[1].len + 1 + TextLen(Tail(lines))

\* _trim: the text and its length after trimming to limit characters.
trim(value, limit) ==
    IF StrLen(value) <= limit THEN [text |-> value, cut |-> FALSE, len |-> StrLen(value)]
    ELSE [text |-> value, cut |-> TRUE, len |-> limit]

\* _make_header
make_header(date) ==
    <<Line("header-date", date, "", "", 29), Line("header-top", 0, "", "", 14)>>

DraftFooter(lp_url) ==
    <<Line("footer-link", 0, lp_url, "", 9 + StrLen(lp_url)), Line("footer-tags", 0, "", "", 12)>>

DraftItemLine(index, candidate) ==
    LET t == trim(candidate.title, 36)
        o == trim(candidate.organization, 14)
    IN Line(IF t.cut \/ o.cut THEN "item-cut" ELSE "item", index, t.text, o.text,
            (IF index < 10 THEN 1 ELSE 2) + 2 + t.len + 1 + o.len + 1)

\* The loop of lines 67-73 from candidate index on.
RECURSIVE DraftLinesFrom(_, _, _, _, _)
DraftLinesFrom(lines, candidates, index, top_n, footer) ==
    IF index > Min(top_n, Len(candidates)) THEN lines
    ELSE LET line == DraftItemLine(index, candidates[index])
         IN IF TextLen(lines \o <<line>> \o footer) > MAX_POST_LENGTH THEN lines
            ELSE DraftLinesFrom(Append(lines, line), candidates, index + 1, top_n, footer)

build_x_post_content_unchecked(date, candidates, top_n, lp_url) ==
    IF lp_url = "" THEN [raised |-> "ValueError", content |-> <<>>, item_count |-> 0]
    ELSE IF top_n <= 0 THEN [raised |-> "ValueError", content |-> <<>>, item_count |-> 0]
    ELSE LET header == make_header(date)
             footer == DraftFooter(lp_url)
             withItems == DraftLinesFrom(header, candidates, 1, top_n, footer)
             item_count == Len(withItems) - Len(header)
             lines == IF item_count = 0
                      THEN Append(withItems, Line("no-items", 0, "", "", 22))
                      ELSE withItems
         IN [raised |-> "none", content |-> lines \o footer, item_count |-> item_count]

\* build_x_post_content: [raised, content, item_count].
build_x_post_content(date, candidates, top_n, lp_url) ==
    IF lp_url = "" THEN [raised |-> "ValueError", content |-> <<>>, item_count |-> 0]
    ELSE IF top_n <= 0 THEN [raised |-> "ValueError", content |-> <<>>, item_count |-> 0]
    ELSE LET header == make_header(date)
             footer == DraftFooter(lp_url)
             withItems == DraftLinesFrom(header, candidates, 1, top_n, footer)
             item_count == Len(withItems) - Len(header)
             lines == IF item_count = 0
                      THEN Append(withItems, Line("no-items", 0, "", "", 22))
                      ELSE withItems
             content == lines \o footer
         IN IF TextLen(content) > MAX_POST_LENGTH
            THEN [raised |-> "ValueError", content |-> <<>>, item_count |-> 0]
            ELSE [raised |-> "none", content |-> content, item_count |-> item_count]

\* _day_range_utc: the JST date and the UTC instants of its start and end.
day_range_utc(now_utc) ==
    LET date == post_date_jst(now_utc)
    IN [post_date_jst |-> date, start_utc |-> date * 24 - JstOffsetHours,
        end_utc |-> (date + 1) * 24 - JstOffsetHours]

\* The rows of top_delivered_items before ORDER BY and LIMIT: one per item
\* delivered in the window, with the highest score of its deliveries.
DeliveredGroups(itbl, dtbl, from, to) ==
    LET inWindow == {d \in dtbl : d.delivered_at >= from /\ d.delivered_at < to}
    IN {[item_id |-> i.id, title |-> i.title, organization |-> i.organization, url |-> i.url,
         published_at |-> i.published_at, fetched_at |-> i.fetched_at,
         score |-> CHOOSE sc \in {d.score : d \in {e \in inWindow : e.item_id = i.id}} :
                      \A d \in inWindow : d.item_id = i.id => d.score <= sc] :
           i \in {j \in itbl : \E d \in inWindow : d.item_id = j.id}}

\* ORDER BY score DESC, COALESCE(published_at, fetched_at) DESC, id DESC
DraftRowBefore(a, b) ==
    LET ta == Coalesce(a.published_at, <<a.fetched_at>>)[1]
        tb == Coalesce(b.published_at, <<b.fetched_at>>)[1]
    IN \/ a.score > b.score
       \/ a.score = b.score /\ ta > tb
       \/ a.score = b.score /\ ta = tb /\ a.item_id > b.item_id

RECURSIVE OrderDraftRows(_)
OrderDraftRows(S) ==
    IF S = {} THEN <<>>
    ELSE LET first == CHOOSE r \in S : \A o \in S \ {r} : DraftRowBefore(r, o)
         IN <<first>> \o OrderDraftRows(S \ {first})

top_delivered_items(itbl, dtbl, delivered_at_from, delivered_at_to, limit) ==
    Take(OrderDraftRows(DeliveredGroups(itbl, dtbl, delivered_at_from, delivered_at_to)), limit)

has_x_draft_for_date(tbl, date) == \E r \in tbl : r.post_date_jst = date

\* record_x_draft: upsert on post_date_jst when overwrite, else a plain
\* INSERT that fails on an existing date.
record_x_draft_adding_row(tbl, row, overwrite) ==
    IF overwrite THEN [tbl |-> tbl \cup {row}, raised |-> FALSE]
    ELSE IF \E r \in tbl : r.post_date_jst = row.post_date_jst
    THEN [tbl |-> tbl, raised |-> TRUE]
    ELSE [tbl |-> tbl \cup {row}, raised |-> FALSE]

record_x_draft(tbl, row, overwrite) ==
    IF overwrite
    THEN [tbl |-> {r \in tbl : r.post_date_jst # row.post_date_jst} \cup {row}, raised |-> FALSE]
    ELSE IF \E r \in tbl : r.post_date_jst = row.post_date_jst
    THEN [tbl |-> tbl, raised |-> TRUE]
    ELSE [tbl |-> tbl \cup {row}, raised |-> FALSE]

\* generate_x_draft for arguments a, the tables and files, at the instant
\* now_utc: the outcome of the invocation, the table and the files after it.
\* generate_x_draft once the content is built: the file is written, then the row.
WriteDraft(a, xtbl, files, now_utc, date, base, built) ==
    LET written == (date :> Append(built.content, EmptyLine)) @@ files
        rec == record_x_draft(xtbl,
                              [post_date_jst |-> date, generated_at |-> now_utc,
                               top_n |-> a.top_n, item_count |-> built.item_count,
                               lp_url |-> a.lp_url, content |-> built.content],
                              a.force)
    IN IF built.raised # "none"
       THEN [draft |-> [base EXCEPT !.raised = built.raised],
             drafts |-> xtbl, files |-> files]
       ELSE IF rec.raised
       THEN [draft |-> [base EXCEPT !.raised = "IntegrityError"],
             drafts |-> xtbl, files |-> written]
       ELSE [draft |-> [base EXCEPT !.content = built.content,
                                    !.item_count = built.item_count],
             drafts |-> rec.tbl, files |-> written]

generate_x_draft(a, itbl, dtbl, xtbl, files, now_utc) ==
    LET range == day_range_utc(now_utc)
        date == range.post_date_jst
        base == [pc |-> "done", date |-> date, force |-> a.force, skipped |-> FALSE,
                 content |-> <<>>, item_count |-> 0, raised |-> "none"]
        limit == IF a.top_n * 3 > a.top_n THEN a.top_n * 3 ELSE a.top_n
    IN IF has_x_draft_for_date(xtbl, date) /\ ~a.force
       THEN [draft |-> [base EXCEPT !.skipped = TRUE,
                                    !.content = IF date \in DOMAIN files THEN files[date] ELSE <<>>],
             drafts |-> xtbl, files |-> files]
       ELSE IF limit <= 0
       THEN [draft |-> [base EXCEPT !.raised = "ValueError"], drafts |-> xtbl, files |-> files]
       ELSE WriteDraft(a, xtbl, files, now_utc, date, base,
                       build_x_post_content(
                           date,
                           top_delivered_items(itbl, dtbl, range.start_utc, range.end_utc, limit),
                           a.top_n, a.lp_url))

DraftArgs ==
    {[top_n |-> 5, lp_url |-> "https://example.com/lp", force |-> FALSE],
     [top_n |-> 1, lp_url |-> "https://example.com/lp", force |-> FALSE],
     [top_n |-> 5, lp_url |-> "https://example.com/lp", force |-> TRUE],
     [top_n |-> 1, lp_url |-> "https://example.com/lp", force |-> TRUE],
     [top_n |-> 0, lp_url |-> "https://example.com/lp", force |-> TRUE],
     [top_n |-> 5, lp_url |-> "", force |-> FALSE]}

\* The invocation's result r becomes the state.
GenerateXDraftReturns(r) ==
    /\ draft' = r.draft
    /\ drafts' = r.drafts
    /\ draftFiles' = r.files
    /\ draftHist' = IF r.draft.raised = "none" /\ ~r.draft.skipped
                    THEN (r.draft.date :> r.draft.content) @@ draftHist
                    ELSE draftHist

GenerateXDraft(a) ==
    /\ draft.pc = "idle"
    /\ GenerateXDraftReturns(generate_x_draft(a, items, deliveries, drafts, draftFiles, now))
    /\ UNCHANGED <<storeVars, pipelineVars, directCall, publishVars>>

\* The invocation has returned or raised; the caller goes on.
DraftReturn ==
    /\ draft.pc = "done"
    /\ draft' = DraftNone
    /\ UNCHANGED <<storeVars, pipelineVars, directCall, publishVars, drafts, draftFiles, draftHist>>

\* The (feed entry, keyword set) pairs delivered between two draft calls.
DraftDeliveries == {<<1, "set-a">>, <<1, "set-b">>, <<3, "set-a">>}

\* A digest run seen from the draft generator: an item is stored and its
\* delivery to a keyword set is recorded (store.upsert_item, store.record_deliveries).
DraftDeliver(i, keyword_set_id) ==
    /\ draft.pc = "idle"
    /\ LET item == FeedUniverse[i] @@ [fetched_at |-> now]
           up == upsert_item(items, itemSeq, item)
           scored == ScorePair(item, KeywordSetById(keyword_set_id))
           st == record_deliveries([tbl |-> deliveries, seq |-> deliverySeq], runs + 1,
                                   keyword_set_id,
                                   <<[item_id |-> up.id, scored_item |-> scored[1]]>>, now)
       IN /\ scored # <<>>
          /\ items' = up.tbl
          /\ itemSeq' = up.seq
          /\ deliveries' = st.tbl
          /\ deliverySeq' = st.seq
    /\ UNCHANGED <<subscribers, pipelineVars, directCall, publishVars, draftVars>>

NextDraft ==
    \/ \E a \in DraftArgs : GenerateXDraft(a)
    \/ DraftReturn
    \/ \E p \in DraftDeliveries : DraftDeliver(p[1], p[2])
    \/ \E d \in PubTickSteps : PublishTick(d)

SpecDraft == Init /\ [][NextDraft]_vars

-----------------------------------------------------------------------------
(* Properties of generate_x_draft *)

DraftStep == draft.pc = "idle" /\ draft'.pc = "done"

DraftRowOf(tbl, date) == CHOOSE r \in tbl : r.post_date_jst = date

\* C12: a second generate_x_draft for the same JST date without force
\* reports skipped, writes neither the draft row nor the file and returns the
\* content the generating call returned; with force it regenerates the content
\* and replaces the stored draft.
C12_DraftIdempotent ==
    [][(DraftStep /\ has_x_draft_for_date(drafts, draft'.date)) =>
          IF ~draft'.force
          THEN /\ draft'.skipped
               /\ drafts' = drafts
               /\ draftFiles' = draftFiles
               /\ draft'.content = draftHist[draft'.date]
          ELSE draft'.raised = "none" =>
                  /\ ~draft'.skipped
                  /\ has_x_draft_for_date(drafts', draft'.date)
                  /\ DraftRowOf(drafts', draft'.date).content = draft'.content
                  /\ DraftRowOf(drafts', draft'.date).generated_at = now]_vars


-----------------------------------------------------------------------------
(* Properties of publish_x_post: outcomes, receipts and rows *)

PublishDone == pub.pc = "done" /\ pub.valid

\* The draft fails a safety check: no or empty text, more than 280 characters,
\* more than one URL, or a URL other than the configured link once both are
\* made canonical.
UnsafeDraft(d) ==
    \/ d.file = NULL
    \/ d.file[1].len = 0
    \/ d.file[1].len > 280
    \/ Len(d.file[1].urls) > 1
    \/ /\ d.lp_url # <<>>
       /\ d.file[1].urls # <<>>
       /\ normalize_url(d.file[1].urls[1]) # normalize_url(d.lp_url[1])

RowsOf(date) == {r \in posts : r.post_date_jst = date}

DryRunStatuses == {"dry_run", "dry_run_invalid", "dry_run_no_route"}

\* C13 as amended: an invocation with dry_run = True that the duplicate check
\* does not stop writes a receipt and returns dry_run_no_route exactly when the
\* mode is not manual and no route resolves, otherwise dry_run_invalid exactly
\* when the draft fails a safety check or cannot be loaded, otherwise dry_run.
C13_DryRunStatus ==
    (PublishDone /\ pub.dry_run_arg /\ ~pub.skipped) =>
        /\ pub.raised = "none"
        /\ pub.dry_run
        /\ pub.receipt = "dry-run"
        /\ pub.status = IF pub.mode # MODE_MANUAL /\ pub.route = "none" THEN "dry_run_no_route"
                        ELSE IF UnsafeDraft(pub.draft[1]) THEN "dry_run_invalid"
                        ELSE "dry_run"

C13_Witness ==
    /\ PublishDone
    /\ pub.dry_run_arg
    /\ pub.status = "dry_run_no_route"
    /\ UnsafeDraft(pub.draft[1])

\* C13 as stated: every invocation with dry_run = True returns one of the
\* three dry-run statuses. A dry run on a date that has a Post row returns
\* "skipped".
C13_EveryDryRunHasDryRunStatus ==
    (PublishDone /\ pub.dry_run_arg) =>
        (pub.receipt # "none" /\ pub.status \in DryRunStatuses)

\* C14: every invocation that passes the argument checks and is not killed
\* before it ends writes a receipt, whatever its outcome.
C14_ReceiptOnEveryOutcome ==
    (PublishDone /\ pub.raised # "crash") => pub.receipt # "none"

\* C15 as amended: a live invocation in a non-manual mode with no resolvable
\* route, which the duplicate check does not stop, makes no external call and
\* writes no Post row; under the policy "fail" it raises
\* LivePublishConfigError with the missing requirements, under
\* "dry-run-success" it returns dry_run = True, status dry_run_no_route and
\* route "none" and writes a receipt.
C15_MissingRoute ==
    (PublishDone /\ ~pub.dry_run_arg /\ pub.mode # MODE_MANUAL /\ ~pub.skipped
        /\ pub.missing_requirements # <<>>) =>
        /\ ~pub.called
        /\ pub.calls = <<>>
        /\ ~pub.wrote
        /\ pub.policy \in SUPPORTED_MISSING_ROUTE_POLICIES
        /\ pub.policy = ON_MISSING_ROUTE_FAIL =>
              /\ pub.raised = "LivePublishConfigError"
              /\ pub.raised_missing = pub.missing_requirements
        /\ pub.policy = ON_MISSING_ROUTE_DRY_RUN_SUCCESS =>
              /\ pub.raised = "none"
              /\ pub.dry_run
              /\ pub.status = "dry_run_no_route"
              /\ pub.route = "none"
              /\ pub.receipt = "fallback-dry-run"

C15_Witness ==
    /\ PublishDone
    /\ ~pub.dry_run_arg
    /\ pub.mode = MODE_AUTO
    /\ pub.raised = "LivePublishConfigError"
    /\ Len(pub.raised_missing) = 3

\* C15 as stated: every live invocation in a non-manual mode without a
\* resolvable route raises LivePublishConfigError under the policy "fail". On
\* a date that has a Post row the invocation returns "skipped" instead.
C15_EveryMissingRouteRaises ==
    [][\A a \in ValidArgs :
         (/\ PublishXPost(a, EnvOk)
          /\ ~a.dry_run
          /\ a.mode # MODE_MANUAL
          /\ Strip(a.webhook_url) = ""
          /\ Strip(a.x_user_access_token) = ""
          /\ Strip(a.x_api_bearer_token) = ""
          /\ Strip(a.bearer_token) = ""
          /\ a.on_missing_route = ON_MISSING_ROUTE_FAIL)
         => pub'.raised = "LivePublishConfigError"]_vars

\* C16 as amended: a live invocation whose draft fails a safety check, and
\* which neither the duplicate check stops nor the missing-route policy turns
\* into a fallback dry run, raises an error, makes no external call and
\* writes no Post row.
C16_UnsafeDraftRaises ==
    (PublishDone /\ ~pub.dry_run_arg /\ ~pub.skipped /\ ~pub.dry_run
        /\ UnsafeDraft(pub.draft[1])) =>
        /\ pub.raised = IF pub.mode # MODE_MANUAL /\ pub.missing_requirements # <<>>
                        THEN "LivePublishConfigError" ELSE "ValueError"
        /\ ~pub.called
        /\ pub.calls = <<>>
        /\ ~pub.wrote

C16_Witness ==
    /\ PublishDone
    /\ ~pub.dry_run_arg
    /\ pub.draft[1].file # NULL
    /\ pub.draft[1].file[1].len = 281
    /\ pub.raised = "ValueError"

\* C16 as stated: every live invocation whose draft fails a safety check
\* raises an error. On a date that has a Post row it returns "skipped", and
\* without a route under the policy "dry-run-success" it returns
\* dry_run_no_route.
C16_EveryUnsafeDraftRaises ==
    (PublishDone /\ ~pub.dry_run_arg /\ UnsafeDraft(pub.draft[1])) =>
        (pub.raised # "none" /\ ~pub.called /\ ~pub.wrote)

-----------------------------------------------------------------------------
(* _resolve_route called directly *)

\* A credential as the environment gives it: unset, blank, or set.
WebhookUrls == {"", " ", "hook"}
UserTokens == {"", " ", "user"}
AppTokens == {"", " ", "app"}

InitRoute ==
    /\ InitPipeline
    /\ InitPublish
    /\ InitDraft
    /\ directCall \in {[op |-> "input", mode |-> m, webhook_url |-> w,
                        x_user_access_token |-> u, x_api_bearer_token |-> b,
                        resolved |-> <<>>] :
                          m \in SUPPORTED_MODES, w \in WebhookUrls, u \in UserTokens,
                          b \in AppTokens}

ResolveRoute ==
    /\ directCall.op = "input"
    /\ directCall' = [directCall EXCEPT
                        !.op = "resolve_route",
                        !.resolved = <<resolve_route(directCall.mode, directCall.webhook_url,
                                                     directCall.x_user_access_token,
                                                     directCall.x_api_bearer_token)>>]
    /\ UNCHANGED <<storeVars, pipelineVars, publishVars, draftVars>>

NextRoute == ResolveRoute

SpecRoute == InitRoute /\ [][NextRoute]_vars

Present(credential) == credential \notin {"", " "}

Named(requirements) == {requirements[i] : i \in 1..Len(requirements)}

\* C19: _resolve_route resolves manual to manual; webhook only with a webhook
\* URL; x_api_v2 with the user token when present, else the application
\* token; auto to the webhook, then the user token, then the application
\* token; and when nothing resolves the route is empty and the missing
\* requirements are exactly the credentials the mode could have used.
C19_ResolveRoute ==
    directCall.op = "resolve_route" =>
        LET mode == directCall.mode
            w == Present(directCall.webhook_url)
            u == Present(directCall.x_user_access_token)
            b == Present(directCall.x_api_bearer_token)
            r == directCall.resolved[1]
            byWebhook == r.route = MODE_WEBHOOK /\ r.missing_requirements = <<>>
            byUser == /\ r.route = MODE_X_API_V2
                      /\ r.direct_token = directCall.x_user_access_token
                      /\ r.missing_requirements = <<>>
            byApp == /\ r.route = MODE_X_API_V2
                     /\ r.direct_token = directCall.x_api_bearer_token
                     /\ r.missing_requirements = <<>>
            unresolved(credentials) ==
                /\ r.route = ""
                /\ Named(r.missing_requirements) = credentials
                /\ Len(r.missing_requirements) = Cardinality(credentials)
        IN CASE mode = MODE_MANUAL ->
                  r.route = MODE_MANUAL /\ r.missing_requirements = <<>>
             [] mode = MODE_WEBHOOK ->
                  IF w THEN byWebhook ELSE unresolved({"X_WEBHOOK_URL"})
             [] mode = MODE_X_API_V2 ->
                  IF u THEN byUser
                  ELSE IF b THEN byApp
                  ELSE unresolved({"X_USER_ACCESS_TOKEN", "X_API_BEARER_TOKEN"})
             [] mode = MODE_AUTO ->
                  IF w THEN byWebhook
                  ELSE IF u THEN byUser
                  ELSE IF b THEN byApp
                  ELSE unresolved({"X_WEBHOOK_URL", "X_USER_ACCESS_TOKEN",
                                   "X_API_BEARER_TOKEN"})

C19_Witness ==
    /\ directCall.op = "resolve_route"
    /\ directCall.mode = MODE_AUTO
    /\ directCall.webhook_url = "hook"
    /\ directCall.x_user_access_token = "user"
    /\ directCall.resolved[1].route = MODE_WEBHOOK


-----------------------------------------------------------------------------
(* The store under upsert_item, record_deliveries and purge_older_than *)

\* directCall keeps what the caller holds: the number of calls made, the ids
\* upsert_item returned, and whether record_deliveries was ever given an id
\* with no item row.
InitRetention ==
    /\ InitPipeline
    /\ InitPublish
    /\ InitDraft
    /\ directCall = [op |-> "none", calls |-> 0, held |-> {}, stale |-> FALSE]

\* The entries upserted directly, each stamped with the instant of the call.
RetentionFeed == {1, 3}

RetentionUpsertItem(i) ==
    /\ LET r == upsert_item(items, itemSeq, FeedUniverse[i] @@ [fetched_at |-> now])
       IN /\ items' = r.tbl
          /\ itemSeq' = r.seq
          /\ directCall' = [directCall EXCEPT !.op = "upsert_item", !.calls = @ + 1,
                                               !.held = @ \cup {r.id}]
    /\ UNCHANGED <<deliveries, deliverySeq, subscribers, pipelineVars, publishVars, draftVars>>

RetentionRecordDeliveries(keyword_set_id, item_id) ==
    /\ item_id \in directCall.held
    /\ LET st == record_deliveries([tbl |-> deliveries, seq |-> deliverySeq], 1, keyword_set_id,
                                   <<[item_id |-> item_id, scored_item |-> [score |-> 10]]>>, now)
       IN /\ deliveries' = st.tbl
          /\ deliverySeq' = st.seq
    /\ directCall' = [directCall EXCEPT
                        !.op = "record_deliveries", !.calls = @ + 1,
                        !.stale = @ \/ item_id \notin {r.id : r \in items}]
    /\ UNCHANGED <<items, itemSeq, subscribers, pipelineVars, publishVars, draftVars>>

RetentionPurge ==
    /\ LET purged == purge_older_than(items, deliveries, RetentionDays, now)
       IN /\ items' = purged.items
          /\ deliveries' = purged.deliveries
    /\ directCall' = [directCall EXCEPT !.op = "purge_older_than", !.calls = @ + 1]
    /\ UNCHANGED <<itemSeq, deliverySeq, subscribers, pipelineVars, publishVars, draftVars>>

\* The clock advance between calls, in hours: the retention window, and a day more.
RetentionTickSteps == {24 * RetentionDays, 24 * (RetentionDays + 1)}

RetentionTick(d) ==
    /\ ticks < MaxTicks
    /\ now' = now + d
    /\ ticks' = ticks + 1
    /\ directCall' = [directCall EXCEPT !.op = "none"]
    /\ UNCHANGED <<storeVars, pc, run, runs, hist, publishVars, draftVars>>

NextRetention ==
    \/ directCall.calls < MaxStoreCalls /\ \E i \in RetentionFeed : RetentionUpsertItem(i)
    \/ /\ directCall.calls < MaxStoreCalls
       /\ \E id \in EnabledIds : \E item_id \in directCall.held :
             RetentionRecordDeliveries(id, item_id)
    \/ directCall.calls < MaxStoreCalls /\ RetentionPurge
    \/ \E d \in RetentionTickSteps : RetentionTick(d)

SpecRetention == InitRetention /\ [][NextRetention]_vars

Referenced(dtbl) == {d.item_id : d \in dtbl}

PurgeStep == directCall'.op = "purge_older_than"

-----------------------------------------------------------------------------
(* upsert_item called with raw URLs *)

\* The raw URLs upserted: two pages, with and without tracking parameters and
\* with the parameters in either order.
UpsertUrls ==
    {Url("/a", <<>>),
     Url("/a", <<Param("utm_source")>>),
     Url("/b", <<Param("page"), Param("id")>>),
     Url("/b", <<Param("id"), Param("page")>>),
     Url("/b", <<Param("id"), Param("gclid"), Param("page")>>)}

\* directCall keeps the number of calls and, for every call made, the raw URL
\* given and the id returned.
InitUpsert ==
    /\ InitPipeline
    /\ InitPublish
    /\ InitDraft
    /\ directCall = [op |-> "none", calls |-> 0, seen |-> {}]

UpsertItem(url) ==
    /\ directCall.calls < MaxStoreCalls
    /\ LET r == upsert_item(items, itemSeq,
                            [FeedUniverse[1] EXCEPT !.url = url] @@ [fetched_at |-> now])
       IN /\ items' = r.tbl
          /\ itemSeq' = r.seq
          /\ directCall' = [op |-> "upsert_item", calls |-> directCall.calls + 1,
                            seen |-> directCall.seen \cup {[url |-> url, id |-> r.id]}]
    /\ UNCHANGED <<deliveries, deliverySeq, subscribers, pipelineVars, publishVars, draftVars>>

NextUpsert == \E url \in UpsertUrls : UpsertItem(url)

SpecUpsert == InitUpsert /\ [][NextUpsert]_vars

TrackingNames ==
    {"utm_source", "utm_medium", "utm_campaign", "utm_term", "utm_content", "gclid", "fbclid"}

\* The number of times the pair occurs among the non-tracking pairs of a query.
Occurrences(pair, query) ==
    Cardinality({i \in 1..Len(query) : query[i] = pair /\ query[i].key \notin TrackingNames})

\* The queries hold the same non-tracking pairs, in any order.
SameParams(p, q) ==
    \A pair \in Range(p) \cup Range(q) : Occurrences(pair, p) = Occurrences(pair, q)

\* The URLs differ at most in tracking parameters and in the order of parameters.
SameButTrackingAndOrder(u, v) ==
    /\ [u EXCEPT !.query = <<>>] = [v EXCEPT !.query = <<>>]
    /\ SameParams(u.query, v.query)

\* C21: after any sequence of upsert_item calls no two rows of items have
\* the same url_key, and two calls whose raw URLs differ only in tracking
\* parameters or parameter order returned the same id, which is the id of the
\* one row of that page.
C21_OneRowPerUrlKey ==
    /\ \A r1, r2 \in items : r1.url_key = r2.url_key => r1 = r2
    /\ \A a, b \in directCall.seen :
          SameButTrackingAndOrder(a.url, b.url) =>
              /\ a.id = b.id
              /\ \E r \in items : r.id = a.id /\ SameButTrackingAndOrder(r.url, a.url)

C21_Witness ==
    /\ Cardinality(items) = 2
    /\ \E a, b \in directCall.seen :
          /\ a.id = b.id
          /\ a.url.query # <<>>
          /\ b.url.query # <<>>
          /\ Len(a.url.query) < Len(b.url.query)
          /\ a.url.query[1] # b.url.query[1]


-----------------------------------------------------------------------------
(* build_x_post_content called directly *)

\* The candidates a list is made of: a short one, and one whose title and
\* organization are cut by _trim.
BuildCandidates ==
    {[title |-> "cloud ops", organization |-> "orgA"],
     [title |-> "a title of forty characters", organization |-> "an organization of twenty"]}

BuildLinks ==
    {"", "https://example.com/lp", "a link of 120 characters", "a link of 180 characters",
     "a link of 200 characters"}

BuildTopN == {0, 1, 3}

InitBuild ==
    /\ InitPipeline
    /\ InitPublish
    /\ InitDraft
    /\ directCall \in {[op |-> "input", candidates |-> c, top_n |-> n, lp_url |-> l,
                        built |-> <<>>] :
                          c \in SeqsUpTo(BuildCandidates, MaxListLen), n \in BuildTopN,
                          l \in BuildLinks}

BuildXPostContent ==
    /\ directCall.op = "input"
    /\ directCall' = [directCall EXCEPT
                        !.op = "build_x_post_content",
                        !.built = <<build_x_post_content(0, directCall.candidates,
                                                         directCall.top_n, directCall.lp_url)>>]
    /\ UNCHANGED <<storeVars, pipelineVars, publishVars, draftVars>>

NextBuild == BuildXPostContent

SpecBuild == InitBuild /\ [][NextBuild]_vars

RECURSIVE SumOfLens(_)
SumOfLens(lines) == IF lines = <<>> THEN 0 ELSE Head(lines).len + SumOfLens(Tail(lines))

\* len("\n".join(lines))
JoinedLen(lines) == SumOfLens(lines) + (IF lines = <<>> THEN 0 ELSE Len(lines) - 1)

ItemKinds == {"item", "item-cut"}

BuildReturned ==
    /\ directCall.op = "build_x_post_content"
    /\ directCall.built[1].raised = "none"

\* C22: for top_n > 0 and a non-empty link, build_x_post_content raises or
\* returns content of at most 280 characters: the two header lines, then the
\* lines numbered 1..item_count of the first item_count candidates, with
\* item_count <= min(top_n, number of candidates), or the no-new-items line
\* when item_count is 0, then the two footer lines.
C22_BuildWithinLimit ==
    (directCall.op = "build_x_post_content" /\ directCall.top_n > 0 /\ directCall.lp_url # "") =>
        LET built == directCall.built[1]
            content == built.content
            n == built.item_count
            middle == SubSeq(content, 3, Len(content) - 2)
        IN built.raised = "none" =>
              /\ JoinedLen(content) <= 280
              /\ Len(content) >= 5
              /\ content[1].kind = "header-date" /\ content[2].kind = "header-top"
              /\ content[Len(content) - 1].kind = "footer-link"
              /\ content[Len(content)].kind = "footer-tags"
              /\ n <= directCall.top_n
              /\ n <= Len(directCall.candidates)
              /\ IF n = 0
                 THEN Len(middle) = 1 /\ middle[1].kind = "no-items"
                 ELSE /\ Len(middle) = n
                      /\ \A i \in 1..n :
                            /\ middle[i].kind \in ItemKinds
                            /\ middle[i].index = i
                            /\ middle[i].title = directCall.candidates[i].title
                            /\ middle[i].organization = directCall.candidates[i].organization

\* The first candidate fits, cut by _trim, and the second does not.
C22_Witness ==
    /\ BuildReturned
    /\ directCall.top_n = 3
    /\ Len(directCall.candidates) = 2
    /\ directCall.built[1].item_count = 1
    /\ directCall.built[1].content[3].kind = "item-cut"


-----------------------------------------------------------------------------
(* _resolve_recipients called directly *)

\* The addresses of the subscribers table; the operator may be a subscriber.
Addresses == {"sub1@example.com", "sub2@example.com", AdminEmail, "ops@example.com"}

\* active_subscriber_emails returns no address twice.
ActiveLists == {q \in SeqsUpTo(Addresses, MaxListLen) : Cardinality(Range(q)) = Len(q)}

InitRecipients ==
    /\ InitPipeline
    /\ InitPublish
    /\ InitDraft
    /\ directCall \in {[op |-> "input", active_subscribers |-> q, admin_email |-> a,
                        send_admin_copy |-> c, recipients |-> <<>>] :
                          q \in ActiveLists, a \in {AdminEmail, "ops@example.com"},
                          c \in BOOLEAN}

ResolveRecipients ==
    /\ directCall.op = "input"
    /\ directCall' = [directCall EXCEPT
                        !.op = "resolve_recipients",
                        !.recipients = resolve_recipients(directCall.active_subscribers,
                                                          directCall.admin_email,
                                                          directCall.send_admin_copy)]
    /\ UNCHANGED <<storeVars, pipelineVars, publishVars, draftVars>>

NextRecipients == ResolveRecipients

SpecRecipients == InitRecipients /\ [][NextRecipients]_vars

OperatorCopyDue == directCall.send_admin_copy \/ directCall.active_subscribers = <<>>

NoAddressTwice(q) == \A i, j \in 1..Len(q) : q[i] = q[j] => i = j

\* C23 as amended: _resolve_recipients returns the active subscribers in
\* the given order, followed by the operator address exactly when
\* send_admin_copy is set or there is no active subscriber and the operator
\* is not already one of the subscribers; the result is never empty and has no
\* address twice.
C23_Recipients ==
    directCall.op = "resolve_recipients" =>
        /\ directCall.recipients =
              IF OperatorCopyDue /\ directCall.admin_email \notin Range(directCall.active_subscribers)
              THEN Append(directCall.active_subscribers, directCall.admin_email)
              ELSE directCall.active_subscribers
        /\ directCall.recipients # <<>>
        /\ NoAddressTwice(directCall.recipients)

C23_Witness ==
    /\ directCall.op = "resolve_recipients"
    /\ directCall.send_admin_copy
    /\ Len(directCall.active_subscribers) = 2
    /\ directCall.active_subscribers[1] = directCall.admin_email
    /\ directCall.recipients = directCall.active_subscribers

\* C23 as stated: the operator address follows the subscribers exactly when
\* send_admin_copy is set or there is no active subscriber. When the operator
\* is one of the subscribers the address is not appended and stays where the
\* list has it.
C23_OperatorAlwaysAppended ==
    directCall.op = "resolve_recipients" =>
        directCall.recipients =
            IF OperatorCopyDue
            THEN Append(directCall.active_subscribers, directCall.admin_email)
            ELSE directCall.active_subscribers


-----------------------------------------------------------------------------
(* score_items called directly *)

ScoreItem(title, organization, published_at, fetched_at, path) ==
    [source_id |-> "s1", organization |-> organization, title |-> title,
     url |-> Url(path, <<>>), published_at |-> published_at, deadline_at |-> NULL,
     fetched_at |-> fetched_at]

\* The items a feed is made of: one per title, and for "cloud ops" also
\* another organization, a later fetch, a publication time, and the same
\* entry under another URL.
ScoreItems ==
    {ScoreItem("cloud ops", "orgA", NULL, 0, "/a"),
     ScoreItem("cloud ops", "orgA", NULL, 0, "/b"),
     ScoreItem("cloud ops", "orgB", NULL, 0, "/a"),
     ScoreItem("cloud ops", "orgA", NULL, 1, "/a"),
     ScoreItem("cloud ops", "orgA", <<5>>, 0, "/a"),
     ScoreItem("cloud ops urgent", "orgA", NULL, 0, "/a"),
     ScoreItem("ops", "orgA", NULL, 0, "/a"),
     ScoreItem("ops hardware", "orgA", NULL, 0, "/a"),
     ScoreItem("cloud ops hardware", "orgA", NULL, 0, "/a"),
     ScoreItem("ops hardware spare", "orgA", NULL, 0, "/a")}

\* The keyword sets score_items is given, one at a time.
ScoreKeywordSets ==
    {[id |-> "set-a", enabled |-> e, min_required_matches |-> m,
      required |-> <<"cloud", "ops">>, boost |-> <<"urgent">>,
      exclude |-> <<"hardware">>, exclude_exceptions |-> x, top_n |-> 2] :
        e \in BOOLEAN, m \in {1, 2}, x \in {<<>>, <<"spare">>}}

RECURSIVE Reverse(_)
Reverse(s) == IF s = <<>> THEN <<>> ELSE Append(Reverse(Tail(s)), Head(s))

InitScore ==
    /\ InitPipeline
    /\ InitPublish
    /\ InitDraft
    /\ directCall \in {[op |-> "input", feed |-> f, keyword_set |-> ks, ranked |-> <<>>,
                        ranked_reversed |-> <<>>] :
                          f \in SeqsUpTo(ScoreItems, MaxListLen), ks \in ScoreKeywordSets}

\* score_items on the feed, and on the same items fed in the opposite order.
ScoreItemsCall ==
    /\ directCall.op = "input"
    /\ directCall' = [directCall EXCEPT
                        !.op = "score_items",
                        !.ranked = score_items(directCall.feed,
                                               <<directCall.keyword_set>>)[directCall.keyword_set.id],
                        !.ranked_reversed =
                            score_items(Reverse(directCall.feed),
                                        <<directCall.keyword_set>>)[directCall.keyword_set.id]]
    /\ UNCHANGED <<storeVars, pipelineVars, publishVars, draftVars>>

NextScore == ScoreItemsCall

SpecScore == InitScore /\ [][NextScore]_vars


ScoreReturned == directCall.op = "score_items"

\* The number of entries of a term list the title contains.
Hits(terms, item) ==
    Cardinality({i \in 1..Len(terms) : terms[i] \in TitleTerms[item.title]})

ShouldKeep(item, ks) ==
    /\ ks.enabled
    /\ Hits(ks.required, item) >= ks.min_required_matches
    /\ \/ Hits(ks.exclude, item) = 0
       \/ Hits(ks.exclude_exceptions, item) >= 1

TimesFed(item) ==
    Cardinality({i \in 1..Len(directCall.feed) : directCall.feed[i] = item})

TimesKept(item) ==
    Cardinality({i \in 1..Len(directCall.ranked) : directCall.ranked[i].item = item})

Fed == Range(directCall.feed)

\* y is x with a title that contains exactly one more required term.
GainsRequiredHit(x, y, ks) ==
    /\ [y EXCEPT !.title = x.title] = x
    /\ \E t \in Range(ks.required) :
          /\ t \notin TitleTerms[x.title]
          /\ TitleTerms[y.title] = TitleTerms[x.title] \cup {t}

\* C24: score_items keeps an (item, keyword set) pair exactly when the set
\* is enabled, the title contains at least min_required_matches of the
\* required terms, and it contains no exclude term or at least one
\* exclude-exception term; with no exception configured every exclude hit
\* rejects; and an item whose title gains one more required term is kept
\* whenever the item without it is.
C24_KeepRule ==
    ScoreReturned =>
        LET ks == directCall.keyword_set
        IN /\ \A x \in Fed :
                 TimesKept(x) = IF ShouldKeep(x, ks) THEN TimesFed(x) ELSE 0
           /\ Len(directCall.ranked) <= Len(directCall.feed)
           /\ \A i \in 1..Len(directCall.ranked) : directCall.ranked[i].item \in Fed
           /\ ks.exclude_exceptions = <<>> =>
                 \A x \in Fed : Hits(ks.exclude, x) >= 1 => TimesKept(x) = 0
           /\ \A x, y \in Fed :
                 GainsRequiredHit(x, y, ks) /\ TimesKept(x) >= 1 => TimesKept(y) >= 1

\* An exclude hit overridden by an exception next to one that is not.
C24_Witness ==
    /\ ScoreReturned
    /\ directCall.keyword_set.exclude_exceptions = <<"spare">>
    /\ Len(directCall.feed) = 2
    /\ directCall.feed[1].title = "ops hardware"
    /\ Len(directCall.ranked) = 1
    /\ directCall.ranked[1].item.title = "ops hardware spare"

\* x and y are the same item but for boost terms in the title.
DifferOnlyInBoost(x, y, ks) ==
    /\ [y EXCEPT !.title = x.title] = x
    /\ TitleTerms[y.title] \ Range(ks.boost) = TitleTerms[x.title] \ Range(ks.boost)

\* C25: the score of a kept pair is ten times the required terms its title
\* contains plus three times the boost terms it contains, and two items
\* that differ only in boost terms are kept or rejected together.
C25_ScoreFormula ==
    ScoreReturned =>
        LET ks == directCall.keyword_set
        IN /\ \A i \in 1..Len(directCall.ranked) :
                 directCall.ranked[i].score =
                     10 * Hits(ks.required, directCall.ranked[i].item)
                     + 3 * Hits(ks.boost, directCall.ranked[i].item)
           /\ \A x, y \in Fed :
                 DifferOnlyInBoost(x, y, ks) => (TimesKept(x) >= 1 <=> TimesKept(y) >= 1)

\* A title with a boost term scores 23 next to the same title without it, 20.
C25_Witness ==
    /\ ScoreReturned
    /\ Len(directCall.ranked) = 2
    /\ directCall.ranked[1].item.title = "cloud ops urgent"
    /\ directCall.ranked[1].score = 23
    /\ directCall.ranked[2].item.title = "cloud ops"
    /\ directCall.ranked[2].score = 20

\* The five keys, each turned so that the smaller sorts first.
RankKey(e) ==
    <<0 - e.score,
      0 - (IF e.item.published_at = NULL THEN 0 ELSE e.item.published_at[1]),
      0 - e.item.fetched_at,
      StrRank(e.item.organization),
      StrRank(e.item.title)>>

RECURSIVE LexLess(_, _)
LexLess(k, l) ==
    /\ k # <<>>
    /\ \/ Head(k) < Head(l)
       \/ Head(k) = Head(l) /\ LexLess(Tail(k), Tail(l))

NoTies ==
    \A i, j \in 1..Len(directCall.ranked) :
        RankKey(directCall.ranked[i]) = RankKey(directCall.ranked[j]) =>
            directCall.ranked[i].item = directCall.ranked[j].item

\* The items of a list whose entries carry the key k, in the list's order.
ItemsWithKey(entries, k) ==
    LET HasKey(e) == RankKey(e) = k
        picked == SelectSeq(entries, HasKey)
    IN [i \in 1..Len(picked) |-> picked[i].item]

FedWithKey(k) ==
    LET InRanked(x) == \E i \in 1..Len(directCall.ranked) :
                           /\ directCall.ranked[i].item = x
                           /\ RankKey(directCall.ranked[i]) = k
    IN SelectSeq(directCall.feed, InRanked)

\* C26: the list of a set is ordered by score descending, published time
\* descending with a missing one as zero, fetched time descending,
\* organization ascending and title ascending; entries equal on all five
\* keep the order they were fed in; and when no two different kept items
\* are equal on all five, the list is the same for the opposite feed order.
C26_RankOrder ==
    ScoreReturned =>
        /\ \A i, j \in 1..Len(directCall.ranked) :
              i < j => ~LexLess(RankKey(directCall.ranked[j]), RankKey(directCall.ranked[i]))
        /\ \A i \in 1..Len(directCall.ranked) :
              ItemsWithKey(directCall.ranked, RankKey(directCall.ranked[i]))
                  = FedWithKey(RankKey(directCall.ranked[i]))
        /\ NoTies => directCall.ranked = directCall.ranked_reversed

\* The sort moves the later-fed, later-fetched item in front.
C26_Witness ==
    /\ ScoreReturned
    /\ Len(directCall.feed) = 2
    /\ Len(directCall.ranked) = 2
    /\ directCall.feed[1].fetched_at = 0
    /\ directCall.feed[2].fetched_at = 1
    /\ directCall.ranked[1].item = directCall.feed[2]
    /\ directCall.ranked[2].item = directCall.feed[1]
    /\ directCall.ranked = directCall.ranked_reversed

\* C26 as stated: the list is the same whatever order the items are fed in.
C26_SameForEveryOrder ==
    ScoreReturned => directCall.ranked = directCall.ranked_reversed


-----------------------------------------------------------------------------
(* normalize_url and stable_url_key called directly *)

UrlPaths == {<<"/a", 0>>, <<"/a", 1>>, <<"/a", 2>>, <<"/b", 0>>, <<"", 0>>, <<"", 1>>}

UrlQueries ==
    {<<Param("id")>>,
     <<Param("id"), Param("page")>>,
     <<Param("page"), Param("id")>>,
     <<Param("utm_source"), Param("id")>>,
     <<Param("id"), [key |-> "utm_source", value |-> "2"]>>}

\* The raw URLs given: either case of scheme and host, paths ending in no,
\* one or two slashes, queries in both orders with and without a tracking
\* parameter, with and without a fragment.
RawUrls ==
    {[scheme |-> s, host |-> h, path |-> p[1], slashes |-> p[2], query |-> q, fragment |-> f] :
        s \in {"https", "HTTPS"}, h \in {"example.com", "Example.com"}, p \in UrlPaths,
        q \in UrlQueries, f \in {"", "x"}}

InitUrl ==
    /\ InitPipeline
    /\ InitPublish
    /\ InitDraft
    /\ directCall \in {[op |-> "input", url |-> u, other |-> v, key |-> NULL,
                        other_key |-> NULL, normalized |-> NULL, renormalized |-> NULL] :
                          u \in RawUrls, v \in RawUrls}

\* stable_url_key of the two URLs, and normalize_url of the first and of its result.
StableUrlKey ==
    /\ directCall.op = "input"
    /\ directCall' = [directCall EXCEPT
                        !.op = "stable_url_key",
                        !.key = <<stable_url_key(directCall.url)>>,
                        !.other_key = <<stable_url_key(directCall.other)>>,
                        !.normalized = <<normalize_url(directCall.url)>>,
                        !.renormalized = <<normalize_url(normalize_url(directCall.url))>>]
    /\ UNCHANGED <<storeVars, pipelineVars, publishVars, draftVars>>

NextUrl == StableUrlKey

SpecUrl == InitUrl /\ [][NextUrl]_vars

UrlReturned == directCall.op = "stable_url_key"

SameButCase(a, b) ==
    \/ a = b
    \/ {a, b} = {"https", "HTTPS"}
    \/ {a, b} = {"example.com", "Example.com"}

\* The paths are the same, or the same non-root path with one more slash at the end.
SameButOneTrailingSlash(u, v) ==
    /\ u.path = v.path
    /\ \/ u.slashes = v.slashes
       \/ /\ u.path # ""
          /\ u.slashes = v.slashes + 1 \/ v.slashes = u.slashes + 1

\* The URLs differ at most in tracking parameters, parameter order, the case
\* of scheme and host, one trailing slash of a non-root path, and the fragment.
SameButNoise(u, v) ==
    /\ SameButCase(u.scheme, v.scheme)
    /\ SameButCase(u.host, v.host)
    /\ SameButOneTrailingSlash(u, v)
    /\ SameParams(u.query, v.query)

\* The path does not end in two or more slashes.
EndsInOneSlashAtMost(u) == u.slashes <= 1

\* C27: for URLs whose path does not end in two or more slashes,
\* stable_url_key is the same for two URLs that differ only in tracking
\* parameters, parameter order, the case of scheme or host, one trailing
\* slash of a non-root path, or the fragment, and normalize_url of such a URL
\* is a fixed point of normalize_url.
C27_StableKey ==
    UrlReturned =>
        /\ SameButNoise(directCall.url, directCall.other)
           /\ EndsInOneSlashAtMost(directCall.url)
           /\ EndsInOneSlashAtMost(directCall.other)
              => directCall.key = directCall.other_key
        /\ EndsInOneSlashAtMost(directCall.url)
              => directCall.renormalized = directCall.normalized

\* Two URLs that differ in every one of the five ways get one key.
C27_Witness ==
    /\ UrlReturned
    /\ directCall.url = [scheme |-> "HTTPS", host |-> "Example.com", path |-> "/a",
                         slashes |-> 1,
                         query |-> <<Param("utm_source"), Param("id")>>, fragment |-> "x"]
    /\ directCall.other = [scheme |-> "https", host |-> "example.com", path |-> "/a",
                           slashes |-> 0,
                           query |-> <<Param("id"), [key |-> "utm_source", value |-> "2"]>>,
                           fragment |-> ""]
    /\ directCall.key = directCall.other_key
    /\ directCall.renormalized = directCall.normalized

\* C27 as stated: for every URL, whatever its path ends in.
C27_AnyPath ==
    UrlReturned =>
        /\ SameButNoise(directCall.url, directCall.other)
              => directCall.key = directCall.other_key
        /\ directCall.renormalized = directCall.normalized


-----------------------------------------------------------------------------
(* mailer.py: send_text_email *)

MaxAttempts == 3

\* What one pass through the try block ends in: the message was handed
\* over, the connection failed (OSError), the server refused
\* (smtplib.SMTPException), or an exception of another class was raised.
SmtpOutcomes == {"ok", "OSError", "SMTPException", "TypeError"}

Retried == {"OSError", "SMTPException"}

MailNone(max_attempts, use_ssl) ==
    [op |-> "input", max_attempts |-> max_attempts, use_ssl |-> use_ssl, attempt |-> 0,
     log |-> <<>>, last_error |-> NULL, error |-> NULL]

after_attempt_retrying_every_error(call, outcome) ==
    LET logged == [call EXCEPT !.log = Append(@, [via |-> IF call.use_ssl THEN "SMTP_SSL"
                                                          ELSE "SMTP",
                                                  outcome |-> outcome])]
    IN IF outcome = "ok" THEN [logged EXCEPT !.op = "returned"]
       ELSE IF call.attempt >= call.max_attempts
            THEN [logged EXCEPT !.op = "raised", !.last_error = <<outcome>>,
                                !.error = <<outcome>>]
            ELSE [logged EXCEPT !.last_error = <<outcome>>, !.attempt = @ + 1]

\* One iteration of the for loop: the try block, and the except clause with
\* the sleep before the next iteration.
after_attempt(call, outcome) ==
    LET logged == [call EXCEPT !.log = Append(@, [via |-> IF call.use_ssl THEN "SMTP_SSL"
                                                          ELSE "SMTP",
                                                  outcome |-> outcome])]
    IN IF outcome = "ok" THEN [logged EXCEPT !.op = "returned"]
       ELSE IF outcome \notin Retried
            THEN [logged EXCEPT !.op = "raised", !.error = <<outcome>>]
       ELSE IF call.attempt >= call.max_attempts
            THEN [logged EXCEPT !.op = "raised", !.last_error = <<outcome>>,
                                !.error = <<outcome>>]
            ELSE [logged EXCEPT !.last_error = <<outcome>>, !.attempt = @ + 1]

InitMail ==
    /\ InitPipeline
    /\ InitPublish
    /\ InitDraft
    /\ directCall \in {MailNone(m, b) : m \in -1..MaxAttempts, b \in BOOLEAN}

\* The call up to the loop: the check of max_attempts.
SendTextEmail ==
    /\ directCall.op = "input"
    /\ directCall' = IF directCall.max_attempts < 1
                     THEN [directCall EXCEPT !.op = "raised", !.error = <<"ValueError">>]
                     ELSE [directCall EXCEPT !.op = "attempting", !.attempt = 1]
    /\ UNCHANGED <<storeVars, pipelineVars, publishVars, draftVars>>

SmtpAttempt ==
    /\ directCall.op = "attempting"
    /\ \E outcome \in SmtpOutcomes : directCall' = after_attempt(directCall, outcome)
    /\ UNCHANGED <<storeVars, pipelineVars, publishVars, draftVars>>

NextMail == SendTextEmail \/ SmtpAttempt

\* The call runs in one thread and every socket operation of an attempt has
\* a timeout, so a step that can be taken is taken.
SpecMail == InitMail /\ [][NextMail]_vars /\ WF_vars(NextMail)

MailDone == directCall.op \in {"returned", "raised"}

MailLog == directCall.log

MailSafe ==
    /\ Len(MailLog) <= IF directCall.max_attempts < 1 THEN 0 ELSE directCall.max_attempts
    /\ \A i \in 1..Len(MailLog) :
          i < Len(MailLog) => MailLog[i].outcome \in {"OSError", "SMTPException"}
    /\ directCall.op = "attempting" =>
          \A i \in 1..Len(MailLog) : MailLog[i].outcome \in {"OSError", "SMTPException"}
    /\ directCall.op = "returned" =>
          /\ MailLog # <<>>
          /\ MailLog[Len(MailLog)].outcome = "ok"
    /\ directCall.op = "raised" /\ directCall.max_attempts >= 1 =>
          /\ MailLog # <<>>
          /\ MailLog[Len(MailLog)].outcome # "ok"
          /\ directCall.error = <<MailLog[Len(MailLog)].outcome>>
          /\ MailLog[Len(MailLog)].outcome \in {"OSError", "SMTPException"}
                => Len(MailLog) = directCall.max_attempts
    /\ directCall.max_attempts < 1 /\ directCall.op # "input" =>
          /\ directCall.op = "raised"
          /\ MailLog = <<>>
          /\ directCall.error = <<"ValueError">>

\* C28: send_text_email ends, by returning or by raising; it makes at most
\* max_attempts attempts, returns right after the first attempt that
\* succeeds, makes another attempt only after an OSError or SMTPException,
\* raises the last error once max_attempts attempts have failed, and with
\* max_attempts below 1 raises without any attempt.
C28_SendTerminates == []MailSafe /\ <>MailDone

\* Three attempts fail and the third error is raised.
C28_Witness ==
    /\ directCall.op = "raised"
    /\ directCall.max_attempts = 3
    /\ Len(directCall.log) = 3
    /\ directCall.log[1].outcome = "OSError"
    /\ directCall.log[3].outcome = "SMTPException"
    /\ directCall.error = <<"SMTPException">>


-----------------------------------------------------------------------------
(* fetcher.py: fetch_source and fetch_all_sources *)

MaxRetries == 1

SourceIds == <<"s1", "s2">>

\* The configured sources, in the order of the configuration.
SourceLists ==
    {[i \in 1..Len(SourceIds) |-> [id |-> SourceIds[i], enabled |-> e[i], retries |-> r[i]]] :
        e \in [1..Len(SourceIds) -> BOOLEAN], r \in [1..Len(SourceIds) -> 0..MaxRetries]}

\* The items a response yields: none, or one entry of the source.
ParsedItems(source) == {<<>>, <<[source_id |-> source.id, title |-> "cloud ops"]>>}

FetchNone(sources) ==
    [op |-> "input", sources |-> sources, enabled_sources |-> <<>>, index |-> 0, attempt |-> 0,
     items |-> <<>>, failures |-> <<>>, log |-> <<>>]

\* The loop of fetch_all_sources moves to the next enabled source, or returns.
NextSource(call) ==
    IF call.index >= Len(call.enabled_sources)
    THEN [call EXCEPT !.op = "returned"]
    ELSE [call EXCEPT !.index = @ + 1, !.attempt = 1]

fetch_source_giving_up(call, ok, parsed) ==
    LET source == call.enabled_sources[call.index]
        logged == [call EXCEPT !.log = Append(@, [source_id |-> source.id,
                                                  attempt |-> call.attempt, ok |-> ok])]
    IN IF ok THEN NextSource([logged EXCEPT !.items = @ \o parsed])
       ELSE IF call.attempt >= source.retries + 1
            THEN [logged EXCEPT !.op = "returned",
                                !.failures = Append(@, [source_id |-> source.id,
                                                         attempt |-> call.attempt])]
            ELSE [logged EXCEPT !.attempt = @ + 1]

\* One iteration of the loop of fetch_source for the current source: the
\* try block returns the items, the except clause keeps the error and the
\* loop goes on; after the last attempt the failure is returned, and
\* fetch_all_sources extends its lists.
fetch_source(call, ok, parsed) ==
    LET source == call.enabled_sources[call.index]
        logged == [call EXCEPT !.log = Append(@, [source_id |-> source.id,
                                                  attempt |-> call.attempt, ok |-> ok])]
    IN IF ok THEN NextSource([logged EXCEPT !.items = @ \o parsed])
       ELSE IF call.attempt >= source.retries + 1
            THEN NextSource([logged EXCEPT
                                !.failures = Append(@, [source_id |-> source.id,
                                                         attempt |-> call.attempt])])
            ELSE [logged EXCEPT !.attempt = @ + 1]

InitFetch ==
    /\ InitPipeline
    /\ InitPublish
    /\ InitDraft
    /\ directCall \in {FetchNone(sources) : sources \in SourceLists}

\* The call up to the loop over the enabled sources.
FetchAllSources ==
    /\ directCall.op = "input"
    /\ LET IsEnabled(source) == source.enabled
           enabled_sources == SelectSeq(directCall.sources, IsEnabled)
       IN directCall' = IF enabled_sources = <<>>
                        THEN [directCall EXCEPT !.op = "returned"]
                        ELSE [directCall EXCEPT !.op = "fetching",
                                                !.enabled_sources = enabled_sources,
                                                !.index = 1, !.attempt = 1]
    /\ UNCHANGED <<storeVars, pipelineVars, publishVars, draftVars>>

\* The response arrives and parses, or anything in the try block raises.
FetchAttempt ==
    /\ directCall.op = "fetching"
    /\ \E ok \in BOOLEAN :
          \E parsed \in IF ok THEN ParsedItems(directCall.enabled_sources[directCall.index])
                        ELSE {<<>>} :
              directCall' = fetch_source(directCall, ok, parsed)
    /\ UNCHANGED <<storeVars, pipelineVars, publishVars, draftVars>>

NextFetch == FetchAllSources \/ FetchAttempt

SpecFetch == InitFetch /\ [][NextFetch]_vars

AttemptsOf(id) == {i \in 1..Len(directCall.log) : directCall.log[i].source_id = id}

Succeeded(id) == \E i \in AttemptsOf(id) : directCall.log[i].ok

FailuresOf(id) ==
    {i \in 1..Len(directCall.failures) : directCall.failures[i].source_id = id}

ItemsOf(id) == {i \in 1..Len(directCall.items) : directCall.items[i].source_id = id}

\* C29: fetch_all_sources attempts every enabled source at most retries + 1
\* times and not again after its first success; when it returns, every
\* enabled source has succeeded or has failed retries + 1 times, a source
\* whose attempts all failed has no item in the result and exactly one
\* SourceFailure, a source that succeeded has no SourceFailure, and a
\* disabled source was never fetched.
C29_FetchAll ==
    \A k \in 1..Len(directCall.sources) :
        LET source == directCall.sources[k]
        IN /\ ~source.enabled =>
                 /\ AttemptsOf(source.id) = {}
                 /\ FailuresOf(source.id) = {}
                 /\ ItemsOf(source.id) = {}
           /\ Cardinality(AttemptsOf(source.id)) <= source.retries + 1
           /\ \A i \in AttemptsOf(source.id) :
                 directCall.log[i].ok => \A j \in AttemptsOf(source.id) : j <= i
           /\ directCall.op = "returned" /\ source.enabled =>
                 /\ Succeeded(source.id)
                    \/ Cardinality(AttemptsOf(source.id)) = source.retries + 1
                 /\ IF Succeeded(source.id)
                    THEN FailuresOf(source.id) = {}
                    ELSE /\ ItemsOf(source.id) = {}
                         /\ Cardinality(FailuresOf(source.id)) = 1

\* The first source fails twice, and the item of the second is returned
\* next to the failure of the first.
C29_Witness ==
    /\ directCall.op = "returned"
    /\ Len(directCall.log) = 3
    /\ ~directCall.log[1].ok
    /\ ~directCall.log[2].ok
    /\ directCall.log[3].ok
    /\ Len(directCall.failures) = 1
    /\ directCall.failures[1].source_id = "s1"
    /\ Len(directCall.items) = 1
    /\ directCall.items[1].source_id = "s2"


-----------------------------------------------------------------------------
(* main.py: main, _notify_failure and the command handlers *)

DefaultMaxAttempts == 3

\* ADMIN_EMAIL set or not; the SMTP_* variables all unset, some of the
\* required ones set, or all set.
Environments ==
    {[admin |-> ad, smtp |-> sm] : ad \in {"", AdminEmail}, sm \in {"none", "partial", "full"}}

\* Lines 79-130: the settings, or the ConfigError raised.
load_runtime_settings(environ, require_smtp, require_admin) ==
    IF require_admin /\ environ.admin = ""
    THEN [raised |-> TRUE, admin_email |-> NULL, smtp_config |-> NULL]
    ELSE IF (environ.smtp # "none" \/ require_smtp) /\ environ.smtp # "full"
    THEN [raised |-> TRUE, admin_email |-> NULL, smtp_config |-> NULL]
    ELSE [raised |-> FALSE,
          admin_email |-> IF environ.admin = "" THEN NULL ELSE <<environ.admin>>,
          smtp_config |-> IF environ.smtp = "full" THEN <<"smtp">> ELSE NULL]

\* A post of the day already in x_posts.
PostOfToday ==
    [post_date_jst |-> post_date_jst(0), posted_at |-> 0, mode |-> MODE_AUTO,
     route |-> MODE_WEBHOOK, status |-> "posted", response_id |-> <<"id-1">>,
     response_body |-> <<ResponseBody(50)>>, failure_reason |-> NULL]

\* The x-publish command lines: every mode, policy and credentials, with
\* --dry-run, --live, both or neither, with and without --force.
PublishCommands ==
    {[command |-> "x-publish", args |-> [a EXCEPT !.live = l], tbl |-> t, job_dry_run |-> FALSE] :
        a \in {v \in ValidArgs : v.file = CanonicalDraft.file /\ v.lp_url = CanonicalDraft.lp_url},
        l \in BOOLEAN, t \in {{}, {PostOfToday}}}

RunCommands ==
    {[command |-> "run", args |-> <<>>, tbl |-> {}, job_dry_run |-> d] : d \in BOOLEAN}

MainNone(cmd, environ) ==
    [op |-> "input", cmd |-> cmd, environ |-> environ, handler |-> "none", sends |-> 0,
     mail |-> <<>>, exit_code |-> NULL]

\* Lines 169-228: run_job returns 0 or raises; what run_pipeline does is open.
run_job(call) ==
    LET settings == load_runtime_settings(call.environ, ~call.cmd.job_dry_run, TRUE)
    IN IF settings.raised THEN {[raised |-> "ConfigError", code |-> NULL]}
       ELSE {[raised |-> "none", code |-> <<0>>], [raised |-> "RuntimeError", code |-> NULL]}

PublishResultUncaught(r) ==
    IF r.pub.raised # "none" THEN [raised |-> r.pub.raised, code |-> NULL]
    ELSE [raised |-> "none", code |-> <<0>>]

\* Lines 281-330: exit code 2 for LivePublishConfigError, any other error
\* goes on to main, and 0 after the return.
PublishResult(r) ==
    IF r.pub.raised = "LivePublishConfigError" THEN [raised |-> "none", code |-> <<2>>]
    ELSE IF r.pub.raised # "none" THEN [raised |-> r.pub.raised, code |-> NULL]
    ELSE [raised |-> "none", code |-> <<0>>]

run_x_publish_command_not_catching(call, env) ==
    LET a == call.cmd.args
        settings == load_runtime_settings(call.environ, FALSE, FALSE)
    IN IF a.live = a.dry_run THEN [raised |-> "ConfigError", code |-> NULL]
       ELSE IF settings.raised THEN [raised |-> "ConfigError", code |-> NULL]
       ELSE PublishResultUncaught(publish_x_post(a, call.cmd.tbl, 0, env))

\* Lines 266-330: the flags, the settings, publish_x_post, and exit code 2
\* for LivePublishConfigError.
run_x_publish_command(call, env) ==
    LET a == call.cmd.args
        settings == load_runtime_settings(call.environ, FALSE, FALSE)
    IN IF a.live = a.dry_run THEN [raised |-> "ConfigError", code |-> NULL]
       ELSE IF settings.raised THEN [raised |-> "ConfigError", code |-> NULL]
       ELSE PublishResult(publish_x_post(a, call.cmd.tbl, 0, env))

HandlerResults(call) ==
    IF call.cmd.command = "run" THEN run_job(call)
    ELSE {run_x_publish_command(call, env) :
             env \in IF call.cmd.args.live = call.cmd.args.dry_run THEN {EnvOk}
                     ELSE EnvFor(call.cmd.args, call.cmd.tbl, 0)}

\* Lines 616-629: the handler's return value, or the except clause up to the
\* call of send_text_email in _notify_failure (lines 153-166).
main(call, result) ==
    IF result.raised = "none"
    THEN [call EXCEPT !.op = "exited", !.handler = "returned", !.exit_code = result.code]
    ELSE LET settings == load_runtime_settings(call.environ, FALSE, FALSE)
             failed == [call EXCEPT !.handler = result.raised]
         IN IF settings.raised \/ settings.admin_email = NULL \/ settings.smtp_config = NULL
            THEN [failed EXCEPT !.op = "exited", !.exit_code = <<1>>]
            ELSE [failed EXCEPT !.op = "notifying", !.sends = @ + 1,
                                !.mail = <<[MailNone(DefaultMaxAttempts, FALSE) EXCEPT
                                              !.op = "attempting", !.attempt = 1]>>]

InitMain ==
    /\ InitPipeline
    /\ InitPublish
    /\ InitDraft
    /\ directCall \in {MainNone(cmd, environ) :
                          cmd \in PublishCommands \cup RunCommands, environ \in Environments}

Main ==
    /\ directCall.op = "input"
    /\ \E result \in HandlerResults(directCall) : directCall' = main(directCall, result)
    /\ UNCHANGED <<storeVars, pipelineVars, publishVars, draftVars>>

\* One attempt of the send_text_email of the notification; when it returns
\* or raises, main returns 1.
NotifyAttempt ==
    /\ directCall.op = "notifying"
    /\ \E outcome \in SmtpOutcomes :
          LET mail == after_attempt(directCall.mail[1], outcome)
          IN directCall' =
                 IF mail.op \in {"returned", "raised"}
                 THEN [directCall EXCEPT !.mail = <<mail>>, !.op = "exited", !.exit_code = <<1>>]
                 ELSE [directCall EXCEPT !.mail = <<mail>>]
    /\ UNCHANGED <<storeVars, pipelineVars, publishVars, draftVars>>

NextMain == Main \/ NotifyAttempt

SpecMain == InitMain /\ [][NextMain]_vars

MainExited == directCall.op = "exited"

OperatorConfigured == directCall.environ.admin # "" /\ directCall.environ.smtp = "full"

\* A live x-publish for which the mode and the credentials give no route.
LiveWithoutRoute ==
    /\ directCall.cmd.command = "x-publish"
    /\ directCall.cmd.args.live
    /\ ~directCall.cmd.args.dry_run
    /\ LET a == directCall.cmd.args
       IN resolve_route(a.mode, a.webhook_url, a.x_user_access_token,
                        IF a.x_api_bearer_token # "" THEN a.x_api_bearer_token
                        ELSE a.bearer_token).route = ""

SettingsLoad == directCall.environ.smtp # "partial"

AlreadyPosted == directCall.cmd.tbl # {} /\ ~directCall.cmd.args.force

\* C30: when a command handler raises, main returns 1; with operator
\* address and SMTP configured it has called send_text_email for the
\* operator exactly once, which made between one and max_attempts = 3 SMTP
\* attempts, and an error of that call does not change the exit code; without
\* them nothing is sent. A live publish without a route returns 2 and sends
\* nothing when the policy is fail, the settings load and no post of the day
\* stops it as a duplicate; with the policy dry-run-success or a post of the
\* day it returns 0.
C30_ExitCodes ==
    MainExited =>
        /\ directCall.handler \notin {"none", "returned"} =>
              /\ directCall.exit_code = <<1>>
              /\ IF OperatorConfigured
                 THEN /\ directCall.sends = 1
                      /\ Len(directCall.mail[1].log) \in 1..DefaultMaxAttempts
                      /\ directCall.mail[1].op \in {"returned", "raised"}
                 ELSE directCall.sends = 0 /\ directCall.mail = <<>>
        /\ LiveWithoutRoute /\ SettingsLoad =>
              /\ directCall.sends = 0
              /\ directCall.exit_code =
                    IF AlreadyPosted THEN <<0>>
                    ELSE IF directCall.cmd.args.on_missing_route = ON_MISSING_ROUTE_FAIL
                    THEN <<2>> ELSE <<0>>
        /\ directCall.handler = "returned" => directCall.sends = 0

\* The handler raises, the notification fails three times, and main returns 1.
C30_Witness ==
    /\ MainExited
    /\ directCall.cmd.command = "run"
    /\ directCall.handler = "RuntimeError"
    /\ directCall.sends = 1
    /\ directCall.mail[1].op = "raised"
    /\ Len(directCall.mail[1].log) = 3
    /\ directCall.exit_code = <<1>>

\* C30 as stated: every live publish without a route returns 2.
C30_LiveWithoutRouteExitsTwo ==
    MainExited =>
        /\ directCall.handler \notin {"none", "returned"} /\ OperatorConfigured =>
              directCall.exit_code = <<1>> /\ directCall.sends = 1
        /\ LiveWithoutRoute => directCall.exit_code = <<2>> /\ directCall.sends = 0

-----------------------------------------------------------------------------
(* stripe_integration.py: apply_webhook_payload on the subscribers table and
   the stripe_customers table (kept in directCall.stripe_customers as the set
   of its [customer_id, email_norm] rows) *)

STOP_EVENT_TYPES == {"invoice.payment_failed", "customer.subscription.deleted"}

STOP_SUBSCRIPTION_STATUSES == {"canceled", "paused", "past_due", "unpaid", "incomplete_expired"}

ToleranceSec == 300

\* str.strip().lower() on the addresses and statuses the model uses.
StripLower(str) ==
    CASE str = "Sub1@Example.com" -> "sub1@example.com"
      [] str = "Past_Due" -> "past_due"
      [] OTHER -> str

normalize_email(email) == StripLower(email)

\* EMAIL_PATTERN on the addresses the model uses.
EmailIsValid(email) == normalize_email(email) \in {"sub1@example.com", "new@example.com"}

\* verify_webhook_signature: TRUE when it returns, FALSE when it raises.
verify_webhook_signature(signature) ==
    /\ signature.skew <= ToleranceSec
    /\ signature.v1_matches

upsert_subscriber(tbl, email, email_norm, status) ==
    {r \in tbl : r.email_norm # email_norm}
        \cup {[email |-> email, email_norm |-> email_norm, status |-> status]}

\* The table after the UPDATE; rowcount > 0 iff a row has the address.
update_subscriber_status(tbl, email_norm, status) ==
    {IF r.email_norm = email_norm THEN [r EXCEPT !.status = status] ELSE r : r \in tbl}

upsert_stripe_customer(tbl, customer_id, email_norm) ==
    {r \in tbl : r.customer_id # customer_id}
        \cup {[customer_id |-> customer_id, email_norm |-> email_norm]}

email_norm_by_stripe_customer(tbl, customer_id) ==
    IF \E r \in tbl : r.customer_id = customer_id
    THEN <<(CHOOSE r \in tbl : r.customer_id = customer_id).email_norm>>
    ELSE NULL

\* Lines 175-178: the address of the object, else the one mapped to its customer.
ResolvedEmail(event, customers) ==
    IF event.email = NULL /\ event.customer # NULL
    THEN email_norm_by_stripe_customer(customers, event.customer[1])
    ELSE event.email

should_stop_on_any_update(event) ==
    event.type \in STOP_EVENT_TYPES \cup {"customer.subscription.updated"}

\* Lines 215-218.
should_stop(event) ==
    IF event.type = "customer.subscription.updated"
    THEN StripLower(event.status) \in STOP_SUBSCRIPTION_STATUSES
    ELSE event.type \in STOP_EVENT_TYPES

StripeRaised(subs, customers) ==
    [subscribers |-> subs, stripe_customers |-> customers,
     action |-> "raised", email_norm |-> NULL]

\* The two tables after the call, and what it returned; email is the resolved
\* address.
ApplyResolved(event, subs, customers, email) ==
    IF event.type = "checkout.session.completed"
    THEN IF email = NULL \/ ~EmailIsValid(email[1])
         THEN StripeRaised(subs, customers)
         ELSE [subscribers |-> upsert_subscriber(subs, email[1], normalize_email(email[1]), "active"),
               stripe_customers |->
                   IF event.customer # NULL
                   THEN upsert_stripe_customer(customers, event.customer[1], normalize_email(email[1]))
                   ELSE customers,
               action |-> "activated", email_norm |-> <<normalize_email(email[1])>>]
    ELSE IF should_stop(event)
    THEN IF email = NULL \/ ~EmailIsValid(email[1])
         THEN StripeRaised(subs, customers)
         ELSE [subscribers |->
                   IF \E r \in subs : r.email_norm = normalize_email(email[1])
                   THEN update_subscriber_status(subs, normalize_email(email[1]), "stopped")
                   ELSE upsert_subscriber(subs, normalize_email(email[1]),
                                          normalize_email(email[1]), "stopped"),
               stripe_customers |->
                   IF event.customer # NULL
                   THEN upsert_stripe_customer(customers, event.customer[1], normalize_email(email[1]))
                   ELSE customers,
               action |-> "stopped", email_norm |-> <<normalize_email(email[1])>>]
    ELSE IF email # NULL /\ ~EmailIsValid(email[1])
    THEN StripeRaised(subs, customers)
    ELSE [subscribers |-> subs, stripe_customers |-> customers, action |-> "ignored",
          email_norm |-> IF email = NULL THEN NULL ELSE <<normalize_email(email[1])>>]

apply_webhook_payload(event, subs, customers) ==
    IF event.verify_signature /\ ~verify_webhook_signature(event.signature)
    THEN StripeRaised(subs, customers)
    ELSE IF event.type = ""
    THEN StripeRaised(subs, customers)
    ELSE ApplyResolved(event, subs, customers, ResolvedEmail(event, customers))

StripeEmails == {NULL, <<"sub1@example.com">>, <<"Sub1@Example.com">>, <<"new@example.com">>,
                 <<"not-an-email">>}

NormEmails == {"sub1@example.com", "sub2@example.com", "new@example.com"}

StripeTypes ==
    {"checkout.session.completed", "invoice.payment_failed", "customer.subscription.deleted",
     "customer.subscription.updated", "invoice.paid", ""}

StripeSignatures ==
    {[skew |-> 0, v1_matches |-> TRUE], [skew |-> ToleranceSec, v1_matches |-> TRUE],
     [skew |-> ToleranceSec + 1, v1_matches |-> TRUE], [skew |-> 0, v1_matches |-> FALSE]}

StripeEvents ==
    {[type |-> t, status |-> s, email |-> e, customer |-> c, verify_signature |-> v, signature |-> g] :
        t \in StripeTypes, s \in {"canceled", "Past_Due", "active"}, e \in StripeEmails,
        c \in {NULL, <<"cus_1">>}, v \in BOOLEAN, g \in StripeSignatures}

\* The events given to the model: a status only on customer.subscription.updated,
\* and without verification one signature only.
StripeInputs ==
    {ev \in StripeEvents :
        /\ ev.type # "customer.subscription.updated" => ev.status = "canceled"
        /\ ~ev.verify_signature => ev.signature = [skew |-> ToleranceSec + 1, v1_matches |-> TRUE]}

StripeNone ==
    [op |-> "stripe", stripe_customers |-> {}, event |-> NULL, action |-> "none",
     email_norm |-> NULL, before |-> NULL,
     handled |-> [m \in NormEmails |-> "none"]]

InitStripe ==
    /\ InitPipeline
    /\ InitPublish
    /\ InitDraft
    /\ directCall = StripeNone

StripeReturns(event, r) ==
    /\ subscribers' = r.subscribers
    /\ directCall' = [directCall EXCEPT
            !.stripe_customers = r.stripe_customers,
            !.event = <<event>>,
            !.action = r.action,
            !.email_norm = r.email_norm,
            !.before = <<[subscribers |-> subscribers,
                          stripe_customers |-> directCall.stripe_customers]>>,
            !.handled = IF r.action \in {"activated", "stopped"}
                        THEN [@ EXCEPT ![r.email_norm[1]] =
                                   IF r.action = "activated" THEN "active" ELSE "stopped"]
                        ELSE @]

ApplyWebhookPayload(event) ==
    /\ directCall.op = "stripe"
    /\ StripeReturns(event, apply_webhook_payload(event, subscribers, directCall.stripe_customers))
    /\ UNCHANGED <<items, itemSeq, deliveries, deliverySeq, pipelineVars, publishVars, draftVars>>

NextStripe == \E event \in StripeInputs : ApplyWebhookPayload(event)

SpecStripe == InitStripe /\ [][NextStripe]_vars

StatusOf(tbl, email_norm) ==
    IF \E r \in tbl : r.email_norm = email_norm
    THEN (CHOOSE r \in tbl : r.email_norm = email_norm).status
    ELSE "absent"

SignatureCheckFails(event) ==
    event.verify_signature /\ (event.signature.skew > ToleranceSec \/ ~event.signature.v1_matches)

\* The address an event is for: the one it carries, else the one stored for
\* its customer before the call; NULL when there is none.
EmailOf(event, before) ==
    IF event.email # NULL THEN event.email
    ELSE IF event.customer = NULL THEN NULL
    ELSE IF \E r \in before.stripe_customers : r.customer_id = event.customer[1]
    THEN <<(CHOOSE r \in before.stripe_customers : r.customer_id = event.customer[1]).email_norm>>
    ELSE NULL

IsStopEvent(event) ==
    \/ event.type \in {"invoice.payment_failed", "customer.subscription.deleted"}
    \/ /\ event.type = "customer.subscription.updated"
       /\ event.status \in {"canceled", "Past_Due"}

\* The event is one the call acts on.
StripeHandled(event, before) ==
    /\ ~SignatureCheckFails(event)
    /\ event.type = "checkout.session.completed" \/ IsStopEvent(event)
    /\ EmailOf(event, before) # NULL
    /\ EmailOf(event, before)[1] # "not-an-email"

AddressOf(email) == IF email = "Sub1@Example.com" THEN "sub1@example.com" ELSE email

\* The subscribers table before the first call.
SubscribersAtStart ==
    {[email |-> "sub1@example.com", email_norm |-> "sub1@example.com", status |-> "active"],
     [email |-> "sub2@example.com", email_norm |-> "sub2@example.com", status |-> "stopped"]}

\* C31: after any sequence of apply_webhook_payload calls each address has at
\* most one subscriber row, an address for which an event was handled has the
\* status the last such event set, and an address for which none was handled
\* has the row it had at the start.  A handled checkout.session.completed
\* leaves the address active and maps the customer to it; a handled
\* invoice.payment_failed, customer.subscription.deleted or
\* customer.subscription.updated with a stop status leaves the address stopped,
\* the address being the one mapped to the customer when the event carries none,
\* and the row being created when there was none; every other call, a failed
\* signature check included, leaves both tables as they were.
C31_WebhookStatus ==
    directCall.op = "stripe" =>
        /\ \A r1, r2 \in subscribers : r1.email_norm = r2.email_norm => r1 = r2
        /\ \A r1, r2 \in directCall.stripe_customers : r1.customer_id = r2.customer_id => r1 = r2
        /\ \A m \in NormEmails :
              IF directCall.handled[m] = "none"
              THEN {r \in subscribers : r.email_norm = m} =
                       {r \in SubscribersAtStart : r.email_norm = m}
              ELSE StatusOf(subscribers, m) = directCall.handled[m]
        /\ directCall.event # NULL =>
              LET event == directCall.event[1]
                  before == directCall.before[1]
              IN IF StripeHandled(event, before)
                 THEN LET m == AddressOf(EmailOf(event, before)[1])
                      IN /\ StatusOf(subscribers, m) =
                                IF event.type = "checkout.session.completed" THEN "active" ELSE "stopped"
                         /\ directCall.handled[m] = StatusOf(subscribers, m)
                         /\ \A o \in NormEmails \ {m} :
                                {r \in subscribers : r.email_norm = o} =
                                    {r \in before.subscribers : r.email_norm = o}
                         /\ event.type = "checkout.session.completed" /\ event.customer # NULL =>
                                [customer_id |-> event.customer[1], email_norm |-> m]
                                    \in directCall.stripe_customers
                 ELSE /\ subscribers = before.subscribers
                      /\ directCall.stripe_customers = before.stripe_customers
                      /\ directCall.action \in {"raised", "ignored"}

\* A stop event without an address stops the subscriber its customer was
\* mapped to by an earlier checkout, and one for an unknown address creates
\* the stopped row.
C31_Witness ==
    /\ directCall.op = "stripe"
    /\ directCall.event # NULL
    /\ directCall.event[1].type = "customer.subscription.deleted"
    /\ directCall.event[1].email = NULL
    /\ directCall.action = "stopped"
    /\ directCall.email_norm = <<"new@example.com">>
    /\ StatusOf(directCall.before[1].subscribers, "new@example.com") = "active"
    /\ StatusOf(subscribers, "new@example.com") = "stopped"
    /\ directCall.handled["sub1@example.com"] = "stopped"

-----------------------------------------------------------------------------
(* x_publish.py: two live publish_x_post invocations of one JST date, each
   from its own process, interleaved at their accesses to the x_posts table
   and at the external call.  Both have the valid draft and every credential. *)

OverlapIdle ==
    [pc |-> "idle", mode |-> "none", force |-> FALSE, route |-> "", existing |-> NULL,
     called |-> FALSE, call_ok |-> FALSE, status |-> "none", raised |-> "none"]

OverlapRow(inv, now_utc, status) ==
    [post_date_jst |-> post_date_jst(now_utc), posted_at |-> now_utc, mode |-> inv.mode,
     route |-> inv.route, status |-> status,
     response_id |-> IF status = "posted" THEN EnvOk.id ELSE NULL,
     response_body |-> IF status = "manual_ready" THEN <<ResponseBody(ManualBodyLen)>>
                       ELSE <<ResponseBody(EnvOk.len)>>,
     failure_reason |-> IF status = "failed" THEN <<FailureReason(EnvOk.len)>> ELSE NULL]

\* Lines 259-302: the lookup of the day's row and the duplicate check.
DuplicateCheck(mode, force, tbl, now_utc) ==
    LET existing == x_post_for_date(tbl, post_date_jst(now_utc))
        rr == resolve_route(mode, "hook", "user", "app")
    IN IF duplicate_found(existing, force)
       THEN [OverlapIdle EXCEPT !.pc = "done", !.mode = mode, !.force = force,
                                !.route = existing[1].route, !.existing = existing,
                                !.status = "skipped"]
       ELSE [OverlapIdle EXCEPT !.pc = IF rr.route = MODE_MANUAL THEN "write" ELSE "call",
                                !.mode = mode, !.force = force, !.route = rr.route,
                                !.existing = existing,
                                !.status = IF rr.route = MODE_MANUAL THEN "manual_ready"
                                           ELSE "none"]

\* Lines 415-425: the external call returns or raises.
ExternalCall(inv, ok) ==
    [inv EXCEPT !.pc = "write", !.called = TRUE, !.call_ok = ok,
                !.status = IF ok THEN "posted" ELSE "failed"]

\* Lines 426-445 and 447-462: w is what record_x_post did.  An error of the
\* write of a failed row is swallowed and the error of the call raised again;
\* an error of the other write leaves the function.
AfterWrite(inv, w) ==
    IF inv.status = "failed" THEN [inv EXCEPT !.pc = "done", !.raised = "call_error"]
    ELSE IF w.raised THEN [inv EXCEPT !.pc = "done", !.status = "none",
                                      !.raised = "IntegrityError"]
    ELSE [inv EXCEPT !.pc = "done"]

OverlapNone == [op |-> "overlap", inv |-> <<OverlapIdle, OverlapIdle>>, overlapped |-> FALSE]

InitOverlap ==
    /\ InitPipeline
    /\ InitPublish
    /\ InitDraft
    /\ directCall = OverlapNone

OverlapUnchanged == UNCHANGED <<storeVars, pipelineVars, pub, pubs, pubHist, draftVars>>

\* Invocation p starts and runs up to the end of the duplicate check.
OverlapStart(p, mode, force) ==
    /\ directCall.op = "overlap"
    /\ directCall.inv[p].pc = "idle"
    /\ directCall' = [directCall EXCEPT
            !.inv[p] = DuplicateCheck(mode, force, posts, now),
            !.overlapped = @ \/ directCall.inv[3 - p].pc \in {"call", "write"}]
    /\ UNCHANGED posts
    /\ OverlapUnchanged

OverlapCall(p, ok) ==
    /\ directCall.op = "overlap"
    /\ directCall.inv[p].pc = "call"
    /\ directCall' = [directCall EXCEPT !.inv[p] = ExternalCall(directCall.inv[p], ok)]
    /\ UNCHANGED posts
    /\ OverlapUnchanged

OverlapWrites(p, w) ==
    /\ posts' = w.tbl
    /\ directCall' = [directCall EXCEPT !.inv[p] = AfterWrite(directCall.inv[p], w)]

OverlapWrite(p) ==
    /\ directCall.op = "overlap"
    /\ directCall.inv[p].pc = "write"
    /\ OverlapWrites(p, record_x_post(posts,
                                      OverlapRow(directCall.inv[p], now, directCall.inv[p].status),
                                      directCall.inv[p].force))
    /\ OverlapUnchanged

NextOverlap ==
    \E p \in {1, 2} :
        \/ \E mode \in SUPPORTED_MODES, force \in BOOLEAN : OverlapStart(p, mode, force)
        \/ \E ok \in BOOLEAN : OverlapCall(p, ok)
        \/ OverlapWrite(p)

SpecOverlap == InitOverlap /\ [][NextOverlap]_vars

\* Both invocations are non-forced, post through an external route, ran at
\* overlapping times and have ended.
OverlappedNonForced ==
    /\ directCall.op = "overlap"
    /\ directCall.overlapped
    /\ \A p \in {1, 2} :
          /\ directCall.inv[p].pc = "done"
          /\ ~directCall.inv[p].force
          /\ directCall.inv[p].mode # MODE_MANUAL

\* C32 as stated: of two non-forced live invocations of one JST date that
\* overlap in time at most one makes the external call, and the other returns
\* status skipped, without posting and without raising.
C32_RaceIsSkipped ==
    OverlappedNonForced =>
        \E p \in {1, 2} :
            /\ ~directCall.inv[p].called
            /\ directCall.inv[p].status = "skipped"
            /\ directCall.inv[p].raised = "none"

-----------------------------------------------------------------------------
(* pipeline.py on one store from two processes: two run_pipeline executions
   interleaved at their accesses to the deliveries table.  Run p is caller p
   of StoreCallers; each record_deliveries batch is one transaction. *)

TwoRunsIdle == [pc |-> "idle", selected_by_set |-> <<>>, index |-> 0, raised |-> FALSE]

\* Lines 40-68 for the candidates of each keyword set: the records of the
\* items without a delivery row of the set, in the order of the candidates.
SelectNew(tbl, candidates, score) ==
    [id \in DOMAIN candidates |->
        LET delivered_ids == delivered_item_ids(tbl, id, candidates[id])
            IsNew(i) == i \in candidates[id] /\ i \notin delivered_ids
            new_ids == SelectSeq(<<1, 2>>, IsNew)
        IN [k \in 1..Len(new_ids) |-> [item_id |-> new_ids[k], scored_item |-> [score |-> score]]]]

\* Lines 164-171: the batch of the index-th keyword set, when it has one.
RecordSet(st, caller, selected_by_set, index) ==
    IF KeywordSets[index].id \in DOMAIN selected_by_set
    THEN record_deliveries(st, caller.run_id, KeywordSets[index].id,
                           selected_by_set[KeywordSets[index].id], caller.delivered_at)
    ELSE st

CallerOf(p) == CHOOSE c \in StoreCallers : c.run_id = p

TwoRunsNone == [op |-> "two_runs", runs |-> <<TwoRunsIdle, TwoRunsIdle>>, order |-> <<>>]

InitTwoRuns ==
    /\ InitPipeline
    /\ InitPublish
    /\ InitDraft
    /\ directCall = TwoRunsNone

TwoRunsUnchanged == UNCHANGED <<itemSeq, subscribers, pipelineVars, publishVars, draftVars>>

\* Run p scores its feed and filters the candidates against the ledger.
TwoRunsSelect(p, candidates) ==
    /\ directCall.op = "two_runs"
    /\ directCall.runs[p].pc = "idle"
    /\ directCall' = [directCall EXCEPT
            !.runs[p] = [TwoRunsIdle EXCEPT
                            !.pc = "send",
                            !.selected_by_set = SelectNew(deliveries, candidates, CallerOf(p).score)]]
    /\ UNCHANGED <<items, deliveries, deliverySeq>>
    /\ TwoRunsUnchanged

\* The send loop of run p ends without error, or with one.
TwoRunsSend(p, ok) ==
    /\ directCall.op = "two_runs"
    /\ directCall.runs[p].pc = "send"
    /\ directCall' = [directCall EXCEPT
            !.runs[p] = IF ok THEN [@ EXCEPT !.pc = "record", !.index = 1]
                        ELSE [@ EXCEPT !.pc = "done", !.raised = TRUE]]
    /\ UNCHANGED <<items, deliveries, deliverySeq>>
    /\ TwoRunsUnchanged

TwoRunsRecorded(p, st) ==
    /\ deliveries' = st.tbl
    /\ deliverySeq' = st.seq
    /\ directCall' = [directCall EXCEPT
            !.runs[p] = [@ EXCEPT !.index = @ + 1,
                                  !.pc = IF directCall.runs[p].index = Len(KeywordSets)
                                         THEN "purge" ELSE "record"],
            !.order = Append(@, [run_id |-> p,
                                 keyword_set_id |-> KeywordSets[directCall.runs[p].index].id])]

\* One turn of the loop of lines 165-171 of run p.
TwoRunsRecord(p) ==
    /\ directCall.op = "two_runs"
    /\ directCall.runs[p].pc = "record"
    /\ TwoRunsRecorded(p, RecordSet([tbl |-> deliveries, seq |-> deliverySeq], CallerOf(p),
                                    directCall.runs[p].selected_by_set, directCall.runs[p].index))
    /\ UNCHANGED items
    /\ TwoRunsUnchanged

TwoRunsPurged(p, purged) ==
    /\ items' = purged.items
    /\ deliveries' = purged.deliveries
    /\ directCall' = [directCall EXCEPT !.runs[p] = [@ EXCEPT !.pc = "done"]]

TwoRunsPurge(p) ==
    /\ directCall.op = "two_runs"
    /\ directCall.runs[p].pc = "purge"
    /\ TwoRunsPurged(p, purge_older_than(items, deliveries, RetentionDays, CallerOf(p).delivered_at))
    /\ UNCHANGED deliverySeq
    /\ TwoRunsUnchanged

NextTwoRuns ==
    \E p \in {1, 2} :
        \/ \E candidates \in [EnabledIds -> SUBSET StoreItemIds] : TwoRunsSelect(p, candidates)
        \/ \E ok \in BOOLEAN : TwoRunsSend(p, ok)
        \/ TwoRunsRecord(p)
        \/ TwoRunsPurge(p)

SpecTwoRuns == InitTwoRuns /\ [][NextTwoRuns]_vars

SelectedBy(p, keyword_set_id, item_id) ==
    /\ keyword_set_id \in DOMAIN directCall.runs[p].selected_by_set
    /\ \E k \in 1..Len(directCall.runs[p].selected_by_set[keyword_set_id]) :
          directCall.runs[p].selected_by_set[keyword_set_id][k].item_id = item_id

\* The run whose batch of the keyword set came first.
FirstWriter(keyword_set_id) ==
    directCall.order[CHOOSE k \in 1..Len(directCall.order) :
                        /\ directCall.order[k].keyword_set_id = keyword_set_id
                        /\ \A j \in 1..(k - 1) : directCall.order[j].keyword_set_id # keyword_set_id].run_id

\* C33: when two run_pipeline executions on one store have both selected
\* the same (keyword set, item) pair and both have gone through their Record
\* steps, neither raised there, and the deliveries table holds exactly one row
\* of the pair, with the run id, score and instant of the run whose write of
\* the pair came first.
C33_RaceKeepsFirstRow ==
    directCall.op = "two_runs" =>
        \A id \in EnabledIds, i \in StoreItemIds :
            /\ SelectedBy(1, id, i)
            /\ SelectedBy(2, id, i)
            /\ \A p \in {1, 2} : directCall.runs[p].pc \in {"purge", "done"}
                                 /\ ~directCall.runs[p].raised
            => /\ Cardinality({d \in deliveries : d.keyword_set_id = id /\ d.item_id = i}) = 1
               /\ \A d \in deliveries :
                     d.keyword_set_id = id /\ d.item_id = i =>
                        /\ d.run_id = FirstWriter(id)
                        /\ d.score = CallerOf(FirstWriter(id)).score
                        /\ d.delivered_at = CallerOf(FirstWriter(id)).delivered_at

\* Both runs selected item 1 for set-a, run 2 wrote first, run 1 wrote
\* afterwards, and both have returned.
C33_Witness ==
    /\ directCall.op = "two_runs"
    /\ SelectedBy(1, "set-a", 1)
    /\ SelectedBy(2, "set-a", 1)
    /\ \A p \in {1, 2} : directCall.runs[p].pc = "done" /\ ~directCall.runs[p].raised
    /\ FirstWriter("set-a") = 2
    /\ \E d \in deliveries : d.keyword_set_id = "set-a" /\ d.item_id = 1 /\ d.run_id = 2

-----------------------------------------------------------------------------
(* storage.py statement by statement: every mutating method runs its
   statements inside `with self.connection`, which commits when the block is
   left normally and rolls back when it is left by an exception; a process
   that dies inside the block leaves a journal that the next open rolls back.
   The tables of the state are the committed ones; directCall.work holds the
   tables as the open transaction sees them. *)

Committed ==
    [items |-> items, itemSeq |-> itemSeq, deliveries |-> deliveries,
     deliverySeq |-> deliverySeq, posts |-> posts, drafts |-> drafts,
     subscribers |-> subscribers]

\* The first statement of upsert_item: INSERT OR IGNORE under UNIQUE(url_key).
InsertOrIgnoreItem(db, item) ==
    IF \E r \in db.items : r.url_key = stable_url_key(item.url)
    THEN [db |-> db, rowcount |-> 0]
    ELSE [db |-> [db EXCEPT !.items = @ \cup {[id |-> db.itemSeq + 1] @@ item
                                                  @@ [url_key |-> stable_url_key(item.url)]},
                            !.itemSeq = @ + 1],
          rowcount |-> 1]

UpdateItemClobbering(db, item) ==
    [db EXCEPT !.items =
        {IF r.url_key = stable_url_key(item.url)
         THEN [r EXCEPT !.source_id = item.source_id, !.organization = item.organization,
                        !.title = item.title, !.url = item.url,
                        !.published_at = item.published_at,
                        !.deadline_at = item.deadline_at,
                        !.fetched_at = item.fetched_at]
         ELSE r : r \in db.items}]

\* The second statement of upsert_item: UPDATE ... WHERE url_key = ?
UpdateItem(db, item) ==
    [db EXCEPT !.items =
        {IF r.url_key = stable_url_key(item.url)
         THEN [r EXCEPT !.source_id = item.source_id, !.organization = item.organization,
                        !.title = item.title, !.url = item.url,
                        !.published_at = Coalesce(item.published_at, r.published_at),
                        !.deadline_at = Coalesce(item.deadline_at, r.deadline_at),
                        !.fetched_at = item.fetched_at]
         ELSE r : r \in db.items}]

\* One statement on the tables of the open transaction; rowcount is the one
\* of the statement before.
Execute(db, stmt, rowcount) ==
    CASE stmt.kind = "delete_deliveries" ->
           [db |-> [db EXCEPT !.deliveries = PurgeDeliveries(@, stmt.cutoff)],
            rowcount |-> 1, raised |-> FALSE]
      [] stmt.kind = "delete_items" ->
           [db |-> [db EXCEPT !.items = PurgeItems(@, db.deliveries, stmt.cutoff)],
            rowcount |-> 1, raised |-> FALSE]
      [] stmt.kind = "insert_or_ignore_delivery" ->
           LET st == InsertOrIgnoreDelivery([tbl |-> db.deliveries, seq |-> db.deliverySeq], stmt.row)
           IN [db |-> [db EXCEPT !.deliveries = st.tbl, !.deliverySeq = st.seq],
               rowcount |-> 1, raised |-> FALSE]
      [] stmt.kind = "insert_or_ignore_item" ->
           InsertOrIgnoreItem(db, stmt.item) @@ [raised |-> FALSE]
      [] stmt.kind = "update_item_if_ignored" ->
           [db |-> IF rowcount = 0 THEN UpdateItem(db, stmt.item) ELSE db,
            rowcount |-> 1, raised |-> FALSE]
      [] stmt.kind = "insert_x_draft" ->
           LET w == record_x_draft(db.drafts, stmt.row, stmt.overwrite)
           IN [db |-> [db EXCEPT !.drafts = w.tbl], rowcount |-> 1, raised |-> w.raised]
      [] stmt.kind = "insert_x_post" ->
           LET w == record_x_post(db.posts, stmt.row, stmt.overwrite)
           IN [db |-> [db EXCEPT !.posts = w.tbl], rowcount |-> 1, raised |-> w.raised]
      [] stmt.kind = "upsert_subscriber" ->
           [db |-> [db EXCEPT !.subscribers =
                       upsert_subscriber(@, stmt.email, stmt.email_norm, stmt.status)],
            rowcount |-> 1, raised |-> FALSE]

\* The statements a method executes inside its `with self.connection` block.
Statements(call, current) ==
    CASE call.name = "purge_older_than" ->
           << [kind |-> "delete_deliveries", cutoff |-> Cutoff(current, call.days)],
              [kind |-> "delete_items", cutoff |-> Cutoff(current, call.days)] >>
      [] call.name = "record_deliveries" ->
           [i \in 1..Len(call.records) |->
               [kind |-> "insert_or_ignore_delivery",
                row |-> [run_id |-> call.run_id, keyword_set_id |-> call.keyword_set_id,
                         item_id |-> call.records[i].item_id,
                         score |-> call.records[i].scored_item.score,
                         delivered_at |-> current]]]
      [] call.name = "upsert_item" ->
           << [kind |-> "insert_or_ignore_item", item |-> call.item @@ [fetched_at |-> current]],
              [kind |-> "update_item_if_ignored", item |-> call.item @@ [fetched_at |-> current]] >>
      [] call.name = "record_x_draft" ->
           << [kind |-> "insert_x_draft", overwrite |-> call.overwrite,
               row |-> [post_date_jst |-> post_date_jst(current), generated_at |-> current,
                        top_n |-> 5, item_count |-> 1, lp_url |-> LpUrl,
                        content |-> call.content]] >>
      [] call.name = "record_x_post" ->
           << [kind |-> "insert_x_post", overwrite |-> call.overwrite,
               row |-> [post_date_jst |-> post_date_jst(current), posted_at |-> current,
                        mode |-> call.mode, status |-> call.status,
                        response_id |-> NULL, response_body |-> NULL]] >>
      [] call.name = "upsert_subscriber" ->
           << [kind |-> "upsert_subscriber", email |-> call.email,
               email_norm |-> normalize_email(call.email), status |-> call.status] >>

\* The tables after the whole method, as the operators of the methods give them.
WholeCall(db, call, current) ==
    CASE call.name = "purge_older_than" ->
           LET purged == purge_older_than(db.items, db.deliveries, call.days, current)
           IN [db EXCEPT !.items = purged.items, !.deliveries = purged.deliveries]
      [] call.name = "record_deliveries" ->
           LET st == record_deliveries([tbl |-> db.deliveries, seq |-> db.deliverySeq],
                                       call.run_id, call.keyword_set_id, call.records, current)
           IN [db EXCEPT !.deliveries = st.tbl, !.deliverySeq = st.seq]
      [] call.name = "upsert_item" ->
           LET r == upsert_item(db.items, db.itemSeq, call.item @@ [fetched_at |-> current])
           IN [db EXCEPT !.items = r.tbl, !.itemSeq = r.seq]
      [] call.name = "record_x_draft" ->
           [db EXCEPT !.drafts = record_x_draft(@, Statements(call, current)[1].row,
                                                call.overwrite).tbl]
      [] call.name = "record_x_post" ->
           [db EXCEPT !.posts = record_x_post(@, Statements(call, current)[1].row,
                                              call.overwrite).tbl]
      [] call.name = "upsert_subscriber" ->
           [db EXCEPT !.subscribers = upsert_subscriber(@, call.email, normalize_email(call.email),
                                                        call.status)]

CommittedAfterStatementAutocommit(db, work) == work

\* What the other connections see after a statement of an open transaction:
\* nothing of it before the commit.
CommittedAfterStatement(db, work) == db

\* Entries of one URL key (with and without dates, under two raw URLs) and one
\* of another key.
TxnItems ==
    {[FeedUniverse[1] EXCEPT !.published_at = <<5>>, !.deadline_at = <<9>>],
     [FeedUniverse[2] EXCEPT !.source_id = "s2", !.organization = "orgB"],
     [FeedUniverse[1] EXCEPT !.published_at = <<6>>],
     FeedUniverse[3]}

\* Batches of one row, of two rows, and of one row twice.
TxnBatches ==
    LET record(i) == [item_id |-> i, scored_item |-> [score |-> 10]]
    IN {<<record(1)>>, <<record(1), record(2)>>, <<record(2), record(2)>>}

MaxTxnCalls == 3

TxnCalls ==
    {[name |-> "purge_older_than", days |-> RetentionDays]}
    \cup {[name |-> "record_deliveries", run_id |-> 1, keyword_set_id |-> "set-a", records |-> q] :
             q \in TxnBatches}
    \cup {[name |-> "upsert_item", item |-> i] : i \in TxnItems}
    \cup {[name |-> "record_x_draft", overwrite |-> o, content |-> c] :
             o \in BOOLEAN, c \in {"draft", "draft of the second call"}}
    \cup {[name |-> "record_x_post", overwrite |-> o, mode |-> MODE_WEBHOOK, status |-> t] :
             o \in BOOLEAN, t \in {"posted", "failed"}}
    \cup {[name |-> "upsert_subscriber", email |-> "Sub1@Example.com", status |-> "stopped"]}

TxnNone ==
    [op |-> "txn", pc |-> "idle", calls |-> 0, call |-> NULL, at |-> 0, stmts |-> <<>>, executed |-> 0,
     rowcount |-> 0, work |-> NULL, pre |-> NULL, post |-> NULL, outcome |-> "none"]

InitTxn ==
    /\ InitPipeline
    /\ InitPublish
    /\ InitDraft
    /\ directCall = TxnNone

TxnTablesUnchanged == UNCHANGED <<storeVars, posts, drafts>>

TxnOthersUnchanged == UNCHANGED <<pc, run, runs, hist, pub, pubs, pubHist, draftFiles, draft, draftHist>>

\* A method is called and enters its `with self.connection` block.
TxnCall(call) ==
    /\ directCall.op = "txn"
    /\ directCall.pc = "idle"
    /\ directCall.calls < MaxTxnCalls
    /\ directCall' = [directCall EXCEPT
            !.pc = "in_txn", !.calls = @ + 1, !.call = <<call>>, !.at = now,
            !.stmts = Statements(call, now), !.executed = 0, !.rowcount = 0,
            !.work = <<Committed>>, !.pre = <<Committed>>,
            !.post = <<WholeCall(Committed, call, now)>>, !.outcome = "none"]
    /\ TxnTablesUnchanged
    /\ UNCHANGED <<now, ticks>>
    /\ TxnOthersUnchanged

TxnSetCommitted(db) ==
    /\ items' = db.items
    /\ itemSeq' = db.itemSeq
    /\ deliveries' = db.deliveries
    /\ deliverySeq' = db.deliverySeq
    /\ posts' = db.posts
    /\ drafts' = db.drafts
    /\ subscribers' = db.subscribers

TxnExecuted(r) ==
    IF r.raised
    THEN /\ directCall' = [directCall EXCEPT !.pc = "idle", !.work = NULL, !.stmts = <<>>,
                                             !.outcome = "raised"]
         /\ TxnTablesUnchanged
    ELSE /\ directCall' = [directCall EXCEPT !.work = <<r.db>>, !.stmts = Tail(@),
                                             !.executed = @ + 1, !.rowcount = r.rowcount]
         /\ TxnSetCommitted(CommittedAfterStatement(Committed, r.db))

\* The next statement of the block; an IntegrityError leaves the block and
\* rolls the transaction back.
TxnStatement ==
    /\ directCall.op = "txn"
    /\ directCall.pc = "in_txn"
    /\ directCall.stmts # <<>>
    /\ TxnExecuted(Execute(directCall.work[1], Head(directCall.stmts), directCall.rowcount))
    /\ UNCHANGED <<now, ticks>>
    /\ TxnOthersUnchanged

\* The block is left normally: commit.
TxnCommit ==
    /\ directCall.op = "txn"
    /\ directCall.pc = "in_txn"
    /\ directCall.stmts = <<>>
    /\ TxnSetCommitted(directCall.work[1])
    /\ directCall' = [directCall EXCEPT !.pc = "idle", !.work = NULL, !.outcome = "committed"]
    /\ UNCHANGED <<now, ticks>>
    /\ TxnOthersUnchanged

\* The process dies inside the block; the store is opened again.
TxnCrash ==
    /\ directCall.op = "txn"
    /\ directCall.pc = "in_txn"
    /\ directCall' = [directCall EXCEPT !.pc = "idle", !.work = NULL, !.outcome = "crashed"]
    /\ TxnTablesUnchanged
    /\ UNCHANGED <<now, ticks>>
    /\ TxnOthersUnchanged

TxnTick(d) ==
    /\ directCall.op = "txn"
    /\ directCall.pc = "idle"
    /\ ticks < MaxTicks
    /\ now' = now + d
    /\ ticks' = ticks + 1
    /\ UNCHANGED <<storeVars, pc, run, runs, hist, directCall, publishVars, draftVars>>

NextTxn ==
    \/ \E call \in TxnCalls : TxnCall(call)
    \/ TxnStatement
    \/ TxnCommit
    \/ TxnCrash
    \/ \E d \in TickSteps : TxnTick(d)

SpecTxn == InitTxn /\ [][NextTxn]_vars

\* C34: each mutating store operation is all-or-nothing.  While it runs the
\* committed tables are those before it; when it returns they are those after
\* the whole operation; when it raises they are those before it; and when the
\* process dies inside it they are those before it or those after it, never
\* tables with part of a batch's rows or with the deliveries half of a purge.
C34_AllOrNothing ==
    directCall.op = "txn" /\ directCall.call # NULL =>
        /\ directCall.pc = "in_txn" => Committed = directCall.pre[1]
        /\ directCall.outcome = "committed" => Committed = directCall.post[1]
        /\ directCall.outcome = "raised" => Committed = directCall.pre[1]
        /\ directCall.outcome = "crashed" =>
              Committed = directCall.pre[1] \/ Committed = directCall.post[1]

\* The process died inside purge_older_than after the delete of the
\* deliveries, which removed a row, and before the delete of the items, which
\* would have removed one.
C34_Witness ==
    /\ directCall.op = "txn"
    /\ directCall.outcome = "crashed"
    /\ directCall.call[1].name = "purge_older_than"
    /\ directCall.executed = 1
    /\ directCall.stmts # <<>>
    /\ directCall.post[1].deliveries # directCall.pre[1].deliveries
    /\ directCall.post[1].items # directCall.pre[1].items

\* The call that last returned was upsert_item for an entry whose URL key had
\* a row before the call.
UpsertedExisting ==
    /\ directCall.op = "txn"
    /\ directCall.outcome = "committed"
    /\ directCall.call[1].name = "upsert_item"
    /\ \E r \in directCall.pre[1].items : r.url_key = stable_url_key(directCall.call[1].item.url)

\* C36: when upsert_item is given an entry whose canonical URL key has a
\* row, that row keeps its id, takes the entry's source id, organization,
\* title, raw URL and fetched_at, takes the entry's published_at and deadline_at
\* where they are not null and keeps its own where they are; no row is added
\* and the other rows are untouched.
C36_MergeOnUpsert ==
    UpsertedExisting =>
        LET item == directCall.call[1].item
            old == CHOOSE r \in directCall.pre[1].items : r.url_key = stable_url_key(item.url)
        IN /\ itemSeq = directCall.pre[1].itemSeq
           /\ {r \in items : r.id # old.id} = {r \in directCall.pre[1].items : r.id # old.id}
           /\ \E new \in items :
                 /\ new.id = old.id
                 /\ new.url_key = old.url_key
                 /\ new.source_id = item.source_id
                 /\ new.organization = item.organization
                 /\ new.title = item.title
                 /\ new.url = item.url
                 /\ new.fetched_at = directCall.at
                 /\ new.published_at = IF item.published_at = NULL THEN old.published_at
                                       ELSE item.published_at
                 /\ new.deadline_at = IF item.deadline_at = NULL THEN old.deadline_at
                                      ELSE item.deadline_at

\* An entry without dates, from another source and under another raw URL, was
\* upserted a month after the row of its key, which had both dates.
C36_Witness ==
    /\ UpsertedExisting
    /\ directCall.call[1].item.published_at = NULL
    /\ directCall.call[1].item.deadline_at = NULL
    /\ \E old \in directCall.pre[1].items :
          /\ old.url_key = stable_url_key(directCall.call[1].item.url)
          /\ old.published_at # NULL
          /\ old.deadline_at # NULL
          /\ old.url # directCall.call[1].item.url
          /\ old.source_id # directCall.call[1].item.source_id
          /\ old.fetched_at # directCall.at
          /\ \E new \in items : new.id = old.id /\ new.published_at = old.published_at
                                /\ new.title = directCall.call[1].item.title

\* The call that last ended was a write of the x_drafts or the x_posts table.
WroteDateRow ==
    /\ directCall.op = "txn"
    /\ directCall.outcome \in {"committed", "raised"}
    /\ directCall.call[1].name \in {"record_x_draft", "record_x_post"}

TableOf(db, name) == IF name = "record_x_draft" THEN db.drafts ELSE db.posts

\* C35: x_drafts and x_posts hold at most one row per JST date.  A forced
\* write for a date that has a row puts its fields in the place of that row's
\* and adds none; a non-forced write for such a date fails and leaves the table
\* as it was; a write for a date without a row adds the row.
C35_OneRowPerDate ==
    /\ \A r1, r2 \in posts : r1.post_date_jst = r2.post_date_jst => r1 = r2
    /\ \A r1, r2 \in drafts : r1.post_date_jst = r2.post_date_jst => r1 = r2
    /\ WroteDateRow =>
          LET call == directCall.call[1]
              before == TableOf(directCall.pre[1], call.name)
              after == TableOf(Committed, call.name)
              date == post_date_jst(directCall.at)
              had == \E r \in before : r.post_date_jst = date
              written == {r \in after : r.post_date_jst = date}
          IN /\ {r \in after : r.post_date_jst # date} = {r \in before : r.post_date_jst # date}
             /\ Cardinality(written) = 1
             /\ IF had /\ ~call.overwrite
                THEN directCall.outcome = "raised" /\ after = before
                ELSE /\ directCall.outcome = "committed"
                     /\ \A r \in written :
                           IF call.name = "record_x_draft"
                           THEN r.content = call.content /\ r.generated_at = directCall.at
                           ELSE r.status = call.status /\ r.posted_at = directCall.at

\* A forced write put a failed post in the place of the posted one of the
\* date, and the date has one row.
C35_Witness ==
    /\ WroteDateRow
    /\ directCall.call[1].name = "record_x_post"
    /\ directCall.call[1].overwrite
    /\ directCall.call[1].status = "failed"
    /\ \E r \in directCall.pre[1].posts :
          r.post_date_jst = post_date_jst(directCall.at) /\ r.status = "posted"
    /\ \A r \in posts : r.post_date_jst = post_date_jst(directCall.at) => r.status = "failed"
    /\ \E r \in drafts : r.content = "draft of the second call"

-----------------------------------------------------------------------------
(* main.py: run_job from the settings to its return value, with the warning
   mail of lines 203-227 sent attempt by attempt *)

\* What run_pipeline gave: it raised, or it returned the failed sources and
\* the number of entries fetched (both sources failing leaves none).
PipelineResults ==
    {[raised |-> TRUE, failures |-> <<>>, fetched_count |-> 0]}
    \cup {r \in [raised : {FALSE}, failures : {<<>>, <<"s1">>, <<"s1", "s2">>},
                  fetched_count : {0, 2}] :
             Len(r.failures) = 2 => r.fetched_count = 0}

should_warn_on_failures_only(result) == result.failures # <<>>

\* Line 203.
should_warn(result) == result.failures # <<>> \/ result.fetched_count = 0

RunJobNone(dry_run, environ, result) ==
    [op |-> "input", dry_run |-> dry_run, environ |-> environ, result |-> result,
     raised |-> "none", sends |-> 0, to |-> NULL, mail |-> <<>>, returned |-> NULL]

\* Lines 170-204: up to the call of send_text_email, or to the return.
run_job_to_warning(call, settings) ==
    IF settings.raised \/ settings.admin_email = NULL
    THEN [call EXCEPT !.op = "exited", !.raised = "ConfigError"]
    ELSE IF call.result.raised
    THEN [call EXCEPT !.op = "exited", !.raised = "RuntimeError"]
    ELSE IF should_warn(call.result) /\ ~call.dry_run /\ settings.smtp_config # NULL
    THEN [call EXCEPT !.op = "warning", !.sends = @ + 1, !.to = settings.admin_email,
                      !.mail = <<[MailNone(DefaultMaxAttempts, FALSE) EXCEPT
                                    !.op = "attempting", !.attempt = 1]>>]
    ELSE [call EXCEPT !.op = "exited", !.returned = <<0>>]

\* Lines 219-228: send_text_email returned or raised; either way return 0.
run_job_after_attempt(call, mail) ==
    IF mail.op \in {"returned", "raised"}
    THEN [call EXCEPT !.mail = <<mail>>, !.op = "exited", !.returned = <<0>>]
    ELSE [call EXCEPT !.mail = <<mail>>]

InitRunJob ==
    /\ InitPipeline
    /\ InitPublish
    /\ InitDraft
    /\ directCall \in {RunJobNone(d, environ, result) :
                          d \in BOOLEAN, environ \in Environments, result \in PipelineResults}

RunJob ==
    /\ directCall.op = "input"
    /\ directCall' = run_job_to_warning(directCall,
                         load_runtime_settings(directCall.environ, ~directCall.dry_run, TRUE))
    /\ UNCHANGED <<storeVars, pipelineVars, publishVars, draftVars>>

\* One SMTP attempt of the send_text_email of the warning.
WarnAttempt ==
    /\ directCall.op = "warning"
    /\ \E outcome \in SmtpOutcomes :
          directCall' = run_job_after_attempt(directCall, after_attempt(directCall.mail[1], outcome))
    /\ UNCHANGED <<storeVars, pipelineVars, publishVars, draftVars>>

NextRunJob == RunJob \/ WarnAttempt

SpecRunJob == InitRunJob /\ [][NextRunJob]_vars

PipelineReturned == directCall.raised = "none" /\ directCall.op # "input"

\* C37: once run_pipeline has returned normally, a non-dry run calls
\* send_text_email for the operator's address once when a source failed or no
\* entry was fetched and never otherwise; a dry run never calls it; run_job
\* does not repeat the call (the call itself makes one to three SMTP attempts),
\* and whether it returned or raised run_job returns 0.
C37_WarningMail ==
    directCall.op \in {"warning", "exited"} /\ PipelineReturned =>
        /\ directCall.sends =
              IF ~directCall.dry_run
                 /\ (Len(directCall.result.failures) >= 1 \/ directCall.result.fetched_count = 0)
              THEN 1 ELSE 0
        /\ directCall.sends = 1 =>
              /\ directCall.to = <<AdminEmail>>
              /\ Len(directCall.mail[1].log) <= DefaultMaxAttempts
        /\ directCall.op = "exited" =>
              /\ directCall.returned = <<0>>
              /\ directCall.sends = 1 => directCall.mail[1].op \in {"returned", "raised"}

\* No source failed and nothing was fetched; the warning could not be sent in
\* three attempts and run_job returned 0.
C37_Witness ==
    /\ directCall.op = "exited"
    /\ PipelineReturned
    /\ ~directCall.dry_run
    /\ directCall.result.failures = <<>>
    /\ directCall.result.fetched_count = 0
    /\ directCall.sends = 1
    /\ directCall.mail[1].op = "raised"
    /\ Len(directCall.mail[1].log) = DefaultMaxAttempts
    /\ directCall.returned = <<0>>

-----------------------------------------------------------------------------
(* The publish channel after a failed and after a manual invocation *)

\* The invocation that has just ended passed the argument checks, was not
\* forced and wrote nothing, and the row of its date has the status: the row
\* was there when it started.
FoundRowWithStatus(status) ==
    /\ PublishDone
    /\ pub.valid
    /\ ~pub.force
    /\ ~pub.wrote
    /\ \E r \in posts : r.post_date_jst = pub.date /\ r.status = status

\* C38: an invocation with force = False (live or dry run, in any mode, with
\* any credentials and draft) on a JST date whose Post row has status "failed"
\* returns status "skipped" with the skipped receipt, makes no external call,
\* raises nothing and leaves the row as it is; only a forced invocation calls
\* again on that date.
C38_FailedRowBlocksRetry ==
    FoundRowWithStatus("failed") =>
        /\ pub.status = "skipped"
        /\ pub.skipped
        /\ pub.receipt = "skipped"
        /\ ~pub.called
        /\ pub.calls = <<>>
        /\ pub.raised = "none"

\* A live webhook invocation with the valid draft and every credential was
\* skipped on a date whose row records a failed call.
C38_Witness ==
    /\ FoundRowWithStatus("failed")
    /\ ~pub.dry_run_arg
    /\ pub.mode = MODE_WEBHOOK
    /\ pub.status = "skipped"
    /\ pubs = 2
    /\ \E r \in posts : r.post_date_jst = pub.date /\ r.failure_reason # NULL

ManualLive == PublishDone /\ pub.valid /\ pub.mode = MODE_MANUAL /\ ~pub.dry_run_arg

-----------------------------------------------------------------------------
(* pipeline.py: consecutive non-dry runs of run_pipeline on one store, with
   what each recipient has received.  A pair is <<keyword set id, item id>>. *)

ResendPairs == EnabledIds \X StoreItemIds

MaxResendRuns == 2

ResendRecipients == {"sub1@example.com", AdminEmail}

\* Lines 40-68 with the cut of line 68: the new records of each keyword set,
\* at most top_n of them.
SelectTop(tbl, candidates, score) ==
    [id \in DOMAIN candidates |->
        Take(SelectNew(tbl, candidates, score)[id], KeywordSetById(id).top_n)]

SelPairs(sel) == UNION {{<<id, sel[id][k].item_id>> : k \in 1..Len(sel[id])} : id \in DOMAIN sel}

SendLoopContinuesUntilError(i, recipients, send_errors) ==
    i < Len(recipients) /\ send_errors = <<>>

\* Lines 146-156: the loop goes on to the next recipient whatever the
\* outcome of a send.
SendLoopContinues(i, recipients, send_errors) == i < Len(recipients)

ResendNone ==
    [op |-> "resend", pc |-> "idle", runs |-> 0, max_total_items |-> 0, candidates |-> <<>>,
     selected_by_set |-> <<>>, recipients |-> <<>>, sent_recipients |-> <<>>,
     send_errors |-> <<>>, outcome |-> "none", failed_pairs |-> {}, partial |-> {},
     received |-> [x \in ResendRecipients \X ResendPairs |-> 0]]

InitResend ==
    /\ InitPipeline
    /\ InitPublish
    /\ InitDraft
    /\ directCall = ResendNone

ResendUnchanged == UNCHANGED <<itemSeq, subscribers, pipelineVars, publishVars, draftVars>>

\* Lines 82-142 of a non-dry run with SMTP settings: selection and recipients.
ResendStart(candidates, max_total_items) ==
    /\ directCall.op = "resend"
    /\ directCall.pc = "idle"
    /\ directCall.runs < MaxResendRuns
    /\ directCall' = [directCall EXCEPT
            !.pc = "send", !.runs = @ + 1, !.max_total_items = max_total_items,
            !.candidates = candidates,
            !.selected_by_set = apply_total_limit(SelectTop(deliveries, candidates, 10),
                                                  KeywordSets, max_total_items),
            !.recipients = resolve_recipients(active_subscriber_emails(subscribers),
                                              AdminEmail, TRUE),
            !.sent_recipients = <<>>, !.send_errors = <<>>, !.outcome = "running"]
    /\ UNCHANGED <<items, deliveries, deliverySeq>>
    /\ ResendUnchanged

\* The state after the send to recipients[i] with the lists sent and errs.
AfterSend(call, i, sent, errs, got) ==
    LET r == [call EXCEPT
                !.sent_recipients = sent, !.send_errors = errs,
                !.received = [x \in DOMAIN @ |->
                                 IF x[1] \in got /\ x[2] \in SelPairs(call.selected_by_set)
                                 THEN Bump(@[x]) ELSE @[x]]]
    IN IF SendLoopContinues(i, call.recipients, errs) THEN r
       ELSE IF SendLoopExit(errs) = "raise"
       THEN [r EXCEPT !.pc = "idle", !.outcome = "raised_send",
                      !.failed_pairs = SelPairs(call.selected_by_set),
                      !.partial = @ \cup (Range(sent) \X SelPairs(call.selected_by_set))]
       ELSE [r EXCEPT !.pc = "record"]

\* Lines 146-162: one pass of the send loop, and the raise after the loop.
ResendSendOne(ok) ==
    /\ directCall.op = "resend"
    /\ directCall.pc = "send"
    /\ LET i == Len(directCall.sent_recipients) + Len(directCall.send_errors) + 1
       IN directCall' =
             AfterSend(directCall, i,
                       IF ok THEN Append(directCall.sent_recipients, directCall.recipients[i])
                       ELSE directCall.sent_recipients,
                       IF ok THEN directCall.send_errors
                       ELSE Append(directCall.send_errors, directCall.recipients[i]),
                       IF ok THEN {directCall.recipients[i]} ELSE {})
    /\ UNCHANGED <<items, deliveries, deliverySeq>>
    /\ ResendUnchanged

ResendRecorded(st, purged) ==
    /\ deliveries' = purged.deliveries
    /\ items' = purged.items
    /\ deliverySeq' = st.seq
    /\ directCall' = [directCall EXCEPT !.pc = "idle", !.outcome = "returned",
                                        !.failed_pairs = {}]

ResendPurged(st) == ResendRecorded(st, purge_older_than(items, st.tbl, RetentionDays, now))

\* Lines 164-181: the Delivery rows of the digest, the purge and the return.
ResendRecord ==
    /\ directCall.op = "resend"
    /\ directCall.pc = "record"
    /\ ResendPurged(RecordFrom([tbl |-> deliveries, seq |-> deliverySeq], directCall.runs,
                            directCall.selected_by_set, now, 1))
    /\ ResendUnchanged

NextResend ==
    \/ /\ directCall.op = "resend"
       /\ directCall.pc = "idle"
       /\ \E candidates \in [EnabledIds -> SUBSET StoreItemIds], m \in MaxTotalChoices :
             ResendStart(candidates, m)
    \/ \E ok \in BOOLEAN : ResendSendOne(ok)
    \/ ResendRecord

SpecResend == InitResend /\ [][NextResend]_vars

\* The run that is sending follows a run that raised after its send loop.
AfterFailedRun ==
    /\ directCall.op = "resend"
    /\ directCall.pc = "send"
    /\ directCall.failed_pairs # {}

SelectedCount(sel) == SumLens(sel, DOMAIN sel)

=============================================================================
